---- MODULE Spec2Model ----
(***************************************************************************)
(* Model of openapi-mcp-generator: the build-time compiler                 *)
(* (mapOpenApiSchemaToJsonSchema, generateInputSchema, extractToolsFromApi,*)
(* determineBaseUrl), the call handler of the generated MCP server, and    *)
(* the session registry of the generated SSE web server.                   *)
(*                                                                         *)
(* Texts that the code concatenates or searches (names, descriptions, path *)
(* templates, URLs, messages) are sequences of tokens, "" being <<>>, so   *)
(* that concatenation, replacement and the includes('{') test are          *)
(* computed, not assumed.                                                  *)
(***************************************************************************)
EXTENDS Naturals, Integers, Sequences, FiniteSets, TLC

VARIABLES
    heap,          \* the schema objects of the (dereferenced) document: node id -> schema
    schema,        \* the node handed to mapOpenApiSchemaToJsonSchema
    jsonSchema,    \* what mapOpenApiSchemaToJsonSchema returned (or threw)
    operation,     \* the operation handed to generateInputSchema
    contract,      \* what generateInputSchema returned (or threw)
    api,           \* the OpenAPI document handed to extractToolsFromApi
    tools,         \* what extractToolsFromApi returned (or threw)
    toolsList,     \* generated server: the tools of the ListTools response
    callToolCode,  \* generated server: the if / else-if branches of the call handler
    API_BASE_URL,  \* generated server: the base URL constant
    calls,         \* generated server: each call's handler position, inputs and result
    requests,      \* the HTTP requests handed to axios so far
    transports,    \* generated web server: the registry, session id -> transport
    sse,           \* generated web server: each /sse handler's position
    connection,    \* each client's SSE connection: none, open or closed
    closeEvents,   \* 'close' events emitted on a request and not yet delivered
    posts,         \* generated web server: each POST /api/messages and its handling
    listResponse,  \* generated server: what the last ListTools request returned
    baseUrlOption,     \* the --base-url option handed to determineBaseUrl
    resolvedBaseUrl,   \* what determineBaseUrl returned
    caughtError,   \* a value thrown inside the try block of a tool's branch
    handled,       \* what the catch block made of it
    specPathOrUrl, \* getToolsFromOpenApi: the description handed in, and its loading
    options,       \* getToolsFromOpenApi: the GetToolsOptions handed in
    getToolsResult \* getToolsFromOpenApi: what the promise settled with

buildVars == <<heap, schema, jsonSchema, operation, contract, api, tools>>
serveVars == <<toolsList, callToolCode, API_BASE_URL, calls, requests, listResponse>>
webVars == <<transports, sse, connection, closeEvents, posts>>
apiVars == <<specPathOrUrl, options, getToolsResult>>
unitVars == <<baseUrlOption, resolvedBaseUrl, caughtError, handled, apiVars>>

vars == <<heap, schema, jsonSchema, operation, contract, api, tools,
          toolsList, callToolCode, API_BASE_URL, calls, requests,
          transports, sse, connection, closeEvents, posts,
          listResponse, baseUrlOption, resolvedBaseUrl, caughtError, handled,
          specPathOrUrl, options, getToolsResult>>

NotRun == [notRun |-> TRUE]
RangeError == [error |-> "RangeError: Maximum call stack size exceeded"]
Thrown(r) == "error" \in DOMAIN r
HasRun(r) == "notRun" \notin DOMAIN r

\* the parts of the system a specification does not run
NoServer ==
    /\ toolsList = <<>> /\ callToolCode = <<>> /\ API_BASE_URL = <<>>
    /\ calls = <<>> /\ requests = {} /\ listResponse = NotRun
NoWebServer ==
    /\ transports = {} /\ sse = <<>> /\ connection = <<>> /\ closeEvents = {}
    /\ posts = <<>>
NoApi ==
    /\ specPathOrUrl = <<>> /\ options = <<>> /\ getToolsResult = NotRun
NoUnit ==
    /\ baseUrlOption = <<>> /\ resolvedBaseUrl = NotRun
    /\ caughtError = NotRun /\ handled = NotRun
    /\ NoApi

(***************************************************************************)
(* Bounds of the model.                                                    *)
(***************************************************************************)
NumNodes == 2      \* schema objects in the document
StackLimit == 6    \* frames the JS call stack holds before RangeError
MaxPaths == 2      \* path templates of a document
MaxParams == 2     \* parameters of an operation

Nodes == 1..NumNodes
NoNode == 0

Range(s) == {s[i] : i \in DOMAIN s}

(***************************************************************************)
(* Schema objects.  A JSON-schema `type` is absent, one name, or an array  *)
(* of names.                                                               *)
(***************************************************************************)
TNone == [kind |-> "none", names |-> <<>>]
TString(t) == [kind |-> "string", names |-> <<t>>]
TArray(ts) == [kind |-> "array", names |-> ts]

PropKeys == {"p"}
NoItems == [none |-> TRUE]
Raw(n) == [raw |-> n]      \* a child copied by reference, not translated

RefNode(r) ==
    [ref |-> r, type |-> TNone, nullable |-> FALSE, description |-> <<>>,
     properties |-> <<>>, items |-> NoNode]
LeafNode(t, nl) ==
    [ref |-> "", type |-> t, nullable |-> nl, description |-> <<>>,
     properties |-> <<>>, items |-> NoNode]
ObjectNode(nl, child) ==
    [ref |-> "", type |-> TString("object"), nullable |-> nl, description |-> <<>>,
     properties |-> IF child = NoNode THEN <<>> ELSE [k \in PropKeys |-> child],
     items |-> NoNode]
ArrayNode(nl, child) ==
    [ref |-> "", type |-> TString("array"), nullable |-> nl, description |-> <<>>,
     properties |-> <<>>, items |-> child]

SchemaShapes ==
    {RefNode("#/components/schemas/X")}
    \cup {LeafNode(t, nl) : t \in {TNone, TString("string"), TString("integer"),
                                   TArray(<<"string">>), TArray(<<"string", "null">>)},
                            nl \in BOOLEAN}
    \cup {ObjectNode(nl, c) : nl \in BOOLEAN, c \in Nodes \cup {NoNode}}
    \cup {ArrayNode(nl, c) : nl \in BOOLEAN, c \in Nodes \cup {NoNode}}

(***************************************************************************)
(* mapOpenApiSchemaToJsonSchema.  `depth` is the number of frames of this  *)
(* function on the call stack; the engine throws RangeError when the stack *)
(* is exhausted.                                                           *)
(***************************************************************************)
\* the nullable step with 'null' pushed without the includes test
NullableType_AlwaysPush(t) ==
    IF t.kind = "array" THEN TArray(Append(t.names, "null"))
    ELSE IF t.kind = "string" THEN TArray(<<t.names[1], "null">>)
    ELSE TString("null")

\* lines 625-629
NullableType(t) ==
    IF t.kind = "array"
    THEN IF "null" \in Range(t.names) THEN t ELSE TArray(Append(t.names, "null"))
    ELSE IF t.kind = "string" THEN TArray(<<t.names[1], "null">>)
    ELSE TString("null")

CoerceType(t) == IF t = TString("integer") THEN TString("number") ELSE t

MappedType(s) ==
    IF s.nullable THEN NullableType(CoerceType(s.type)) ELSE CoerceType(s.type)

RecursesIntoProperties(s) ==
    MappedType(s) = TString("object") /\ DOMAIN s.properties # {}

RecursesIntoItems(s) ==
    MappedType(s) = TString("array") /\ s.items # NoNode

RECURSIVE mapOpenApiSchemaToJsonSchema(_, _, _)
mapOpenApiSchemaToJsonSchema(h, n, depth) ==
    IF depth > StackLimit THEN RangeError
    ELSE LET s == h[n] IN
    IF s.ref # ""
    THEN [type |-> TString("object"), description |-> <<"Unresolved: ", s.ref>>,
          properties |-> <<>>, items |-> NoItems]
    ELSE
      LET mappedProps ==
              IF RecursesIntoProperties(s)
              THEN [k \in DOMAIN s.properties |->
                        mapOpenApiSchemaToJsonSchema(h, s.properties[k], depth + 1)]
              ELSE [k \in DOMAIN s.properties |-> Raw(s.properties[k])]
          mappedItems ==
              IF RecursesIntoItems(s)
              THEN mapOpenApiSchemaToJsonSchema(h, s.items, depth + 1)
              ELSE IF s.items # NoNode THEN Raw(s.items) ELSE NoItems
      IN IF \/ \E k \in DOMAIN mappedProps : Thrown(mappedProps[k])
            \/ Thrown(mappedItems)
         THEN RangeError
         ELSE [type |-> MappedType(s), description |-> s.description,
               properties |-> mappedProps, items |-> mappedItems]

(***************************************************************************)
(* generateInputSchema.  A parameter is a record (name, in, required,      *)
(* schema, description); schema is a node of the heap or NoNode.  A        *)
(* request body is (declared, required, description, content), content     *)
(* being the entries of its content map in key order.                      *)
(***************************************************************************)
NoRequestBody ==
    [declared |-> FALSE, required |-> FALSE, description |-> <<>>, content |-> <<>>]

Or(a, b) == IF a # <<>> THEN a ELSE b     \* the || of two strings

WithDescription(js, d) == [js EXCEPT !.description = d]

\* the forEach with the required push made before the name/schema check
RECURSIVE AddParameters_PushFirst(_, _, _, _)
AddParameters_PushFirst(h, params, i, acc) ==
    IF i > Len(params) \/ acc.thrown THEN acc
    ELSE LET param == params[i]
             req == IF param.required THEN Append(acc.required, param.name)
                    ELSE acc.required
         IN
      IF param.name = "" \/ param.schema = NoNode
      THEN AddParameters_PushFirst(h, params, i + 1, [acc EXCEPT !.required = req])
      ELSE LET paramSchema == mapOpenApiSchemaToJsonSchema(h, param.schema, 1) IN
        IF Thrown(paramSchema)
        THEN [acc EXCEPT !.thrown = TRUE]
        ELSE AddParameters_PushFirst(h, params, i + 1,
               [properties |->
                    [k \in DOMAIN acc.properties \cup {param.name} |->
                        IF k = param.name
                        THEN WithDescription(paramSchema,
                                 Or(param.description, paramSchema.description))
                        ELSE acc.properties[k]],
                required |-> req,
                thrown |-> FALSE])

\* lines 585-591: the forEach over allParameters, from parameter i on
RECURSIVE AddParameters(_, _, _, _)
AddParameters(h, params, i, acc) ==
    IF i > Len(params) \/ acc.thrown THEN acc
    ELSE LET param == params[i] IN
      IF param.name = "" \/ param.schema = NoNode
      THEN AddParameters(h, params, i + 1, acc)
      ELSE LET paramSchema == mapOpenApiSchemaToJsonSchema(h, param.schema, 1) IN
        IF Thrown(paramSchema)
        THEN [acc EXCEPT !.thrown = TRUE]
        ELSE AddParameters(h, params, i + 1,
               [properties |->
                    [k \in DOMAIN acc.properties \cup {param.name} |->
                        IF k = param.name
                        THEN WithDescription(paramSchema,
                                 Or(param.description, paramSchema.description))
                        ELSE acc.properties[k]],
                required |-> IF param.required
                             THEN Append(acc.required, param.name)
                             ELSE acc.required,
                thrown |-> FALSE])

JsonContent(body) ==
    {i \in DOMAIN body.content : body.content[i].ctype = "application/json"}

\* lines 592-609: the request body part
AddRequestBody(h, body, acc) ==
    IF acc.thrown \/ ~body.declared THEN acc
    ELSE IF \E i \in JsonContent(body) : body.content[i].schema # NoNode
    THEN LET i == CHOOSE j \in JsonContent(body) : TRUE
             bodySchema == mapOpenApiSchemaToJsonSchema(h, body.content[i].schema, 1)
         IN IF Thrown(bodySchema)
            THEN [acc EXCEPT !.thrown = TRUE]
            ELSE [properties |->
                      [k \in DOMAIN acc.properties \cup {"requestBody"} |->
                          IF k = "requestBody"
                          THEN WithDescription(bodySchema,
                                   Or(body.description,
                                      Or(bodySchema.description, <<"The JSON request body.">>)))
                          ELSE acc.properties[k]],
                  required |-> IF body.required
                               THEN Append(acc.required, "requestBody")
                               ELSE acc.required,
                  thrown |-> FALSE]
    ELSE IF Len(body.content) > 0
    THEN [properties |->
              [k \in DOMAIN acc.properties \cup {"requestBody"} |->
                  IF k = "requestBody"
                  THEN [type |-> TString("string"),
                        description |->
                            Or(body.description,
                               <<"Request body (content type: ", body.content[1].ctype, ")">>),
                        properties |-> <<>>, items |-> NoItems]
                  ELSE acc.properties[k]],
          required |-> IF body.required
                       THEN Append(acc.required, "requestBody")
                       ELSE acc.required,
          thrown |-> FALSE]
    ELSE acc

\* line 610: the required key is spread in only when the list is not empty
InputSchemaOf(properties, required) ==
    IF Len(required) > 0
    THEN [type |-> "object", properties |-> properties, required |-> required]
    ELSE [type |-> "object", properties |-> properties]

generateInputSchema(h, op) ==
    LET acc == AddRequestBody(h, op.requestBody,
                   AddParameters(h, op.parameters, 1,
                       [properties |-> <<>>, required |-> <<>>, thrown |-> FALSE]))
    IN IF acc.thrown THEN RangeError
       ELSE [inputSchema |-> InputSchemaOf(acc.properties, acc.required),
             parameters |-> op.parameters,
             requestBody |-> op.requestBody]

RequiredOf(inputSchema) ==
    IF "required" \in DOMAIN inputSchema THEN inputSchema.required ELSE <<>>

(***************************************************************************)
(* extractToolsFromApi.  A document is (paths, servers); paths are the     *)
(* entries of api.paths in key order, each a path template with the        *)
(* operations it has, by method.  A name is a sequence of tokens: a stem   *)
(* followed by the suffixes _1, _2, ... appended to it.                    *)
(***************************************************************************)
\* OpenAPIV3.HttpMethods, in declaration order
HttpMethods == <<"get", "put", "post", "delete", "options", "head", "patch", "trace">>

ToUpperCase(m) ==
    CASE m = "get" -> "GET" [] m = "put" -> "PUT" [] m = "post" -> "POST"
      [] m = "delete" -> "DELETE" [] m = "options" -> "OPTIONS"
      [] m = "head" -> "HEAD" [] m = "patch" -> "PATCH" [] m = "trace" -> "TRACE"

\* the token the path contributes to a synthesized identifier
PathToken(path) ==
    CASE path = <<"/a">> -> "A" [] path = <<"/a", "/">> -> "A" [] path = <<"/b">> -> "B"
      [] path = <<"/users/", "{id}">> -> "UsersById"
      [] path = <<"/items/", "{id}">> -> "ItemsById"
      [] path = <<"/items">> -> "Items" [] path = <<"/notes">> -> "Notes"
      [] OTHER -> ""

\* utils.generateOperationId: deterministic in (method, path); the empty
\* path template stands for a path no identifier can be produced from
generateOperationId(method, path) ==
    IF path = <<>> THEN <<>> ELSE <<method \o PathToken(path)>>

\* `_${counter}`, the text appended to a base name
Suffix(counter) == "_" \o ToString(counter)

\* the collision loop run once only: an `if` where the code has `while`
ResolveToolName_Once(baseName, finalToolName, counter, usedNames) ==
    IF finalToolName \in usedNames THEN Append(baseName, Suffix(counter))
    ELSE finalToolName

\* the collision loop with the counter starting one too high
RECURSIVE ResolveToolName_From2(_, _, _, _)
ResolveToolName_From2(baseName, finalToolName, counter, usedNames) ==
    IF finalToolName \in usedNames
    THEN ResolveToolName_From2(baseName, Append(baseName, Suffix(counter + 1)), counter + 1,
                               usedNames)
    ELSE finalToolName

\* line 569: while (usedNames.has(finalToolName)) finalToolName = baseName_counter++
RECURSIVE ResolveToolName(_, _, _, _)
ResolveToolName(baseName, finalToolName, counter, usedNames) ==
    IF finalToolName \in usedNames
    THEN ResolveToolName(baseName, Append(baseName, Suffix(counter)), counter + 1, usedNames)
    ELSE finalToolName

\* the (path, method, operation) triples in the order the two loops visit them
RECURSIVE MethodEntries(_, _)
MethodEntries(pathItem, m) ==
    IF m > Len(HttpMethods) THEN <<>>
    ELSE (IF HttpMethods[m] \in DOMAIN pathItem.ops
          THEN <<[path |-> pathItem.path, method |-> HttpMethods[m],
                  operation |-> pathItem.ops[HttpMethods[m]]]>>
          ELSE <<>>)
         \o MethodEntries(pathItem, m + 1)

RECURSIVE PathEntries(_, _)
PathEntries(paths, p) ==
    IF p > Len(paths) THEN <<>>
    ELSE MethodEntries(paths[p], 1) \o PathEntries(paths, p + 1)

\* lines 562-573: the loop body, from entry i on
RECURSIVE ExtractLoop(_, _, _, _, _)
ExtractLoop(h, entries, i, acc, usedNames) ==
    IF i > Len(entries) \/ Thrown(acc) THEN acc
    ELSE LET e == entries[i]
             baseName == IF e.operation.operationId # <<>>
                         THEN e.operation.operationId
                         ELSE generateOperationId(e.method, e.path)
         IN IF baseName = <<>> \/ baseName = <<"">>
            THEN ExtractLoop(h, entries, i + 1, acc, usedNames)
            ELSE LET finalToolName == ResolveToolName(baseName, baseName, 1, usedNames)
                     description ==
                         Or(e.operation.description,
                            Or(e.operation.summary,
                               <<"Executes ", ToUpperCase(e.method), " ">> \o e.path))
                     gen == generateInputSchema(h, e.operation)
                 IN IF Thrown(gen)
                    THEN RangeError
                    ELSE ExtractLoop(h, entries, i + 1,
                           [tools |-> Append(acc.tools,
                               [name |-> finalToolName, description |-> description,
                                inputSchema |-> gen.inputSchema,
                                operationId |-> baseName, method |-> e.method,
                                path |-> e.path, parameters |-> gen.parameters,
                                requestBody |-> gen.requestBody])],
                           usedNames \cup {finalToolName})

extractToolsFromApi(h, doc) ==
    ExtractLoop(h, PathEntries(doc.paths, 1), 1, [tools |-> <<>>], {})

(***************************************************************************)
(* determineBaseUrl and the code generated from the extracted tools.  A    *)
(* URL is a text; a server is a record (url).                              *)
(***************************************************************************)
NullUrl == <<"null">>      \* the null that determineBaseUrl returns

\* .replace(/\/$/, '')
StripTrailingSlash(url) ==
    IF Len(url) > 0 /\ url[Len(url)] = "/" THEN SubSeq(url, 1, Len(url) - 1) ELSE url

\* the precedence with the declared servers looked at before the override
determineBaseUrl_ServersFirst(doc, cmdLineBaseUrl) ==
    IF Len(doc.servers) = 1 /\ doc.servers[1].url # <<>>
    THEN StripTrailingSlash(doc.servers[1].url)
    ELSE IF Len(doc.servers) > 1 THEN StripTrailingSlash(doc.servers[1].url)
    ELSE IF cmdLineBaseUrl # <<>> THEN StripTrailingSlash(cmdLineBaseUrl)
    ELSE NullUrl

\* lines 541-550
determineBaseUrl(doc, cmdLineBaseUrl) ==
    IF cmdLineBaseUrl # <<>> THEN StripTrailingSlash(cmdLineBaseUrl)
    ELSE IF Len(doc.servers) = 1 /\ doc.servers[1].url # <<>>
    THEN StripTrailingSlash(doc.servers[1].url)
    ELSE IF Len(doc.servers) > 1 THEN StripTrailingSlash(doc.servers[1].url)
    ELSE NullUrl

\* line 266: "${determinedBaseUrl || ''}"
BaseUrlConstant(determinedBaseUrl) ==
    IF determinedBaseUrl = NullUrl THEN <<>> ELSE determinedBaseUrl

generateListTools(ts) ==
    [i \in DOMAIN ts |->
        [name |-> ts[i].name, description |-> ts[i].description,
         inputSchema |-> ts[i].inputSchema]]

NamesIn(parameters, loc) ==
    LET ps == SelectSeq(parameters, LAMBDA p : p.in = loc)
    IN [i \in DOMAIN ps |-> ps[i].name]

\* the content type taken from the first representation, JSON or not
RequestContentType_First(body) ==
    IF ~body.declared THEN "application/json"
    ELSE IF Len(body.content) > 0 THEN body.content[1].ctype
    ELSE "application/json"

\* lines 717-733
RequestContentType(body) ==
    IF ~body.declared THEN "application/json"
    ELSE IF JsonContent(body) # {} THEN "application/json"
    ELSE IF Len(body.content) > 0 THEN body.content[1].ctype
    ELSE "application/json"

\* one generated branch per tool, in the order of the else-if chain
\* the branches generated for all tools but the last one
generateCallTool_DropLast(ts, baseUrl) ==
    [i \in 1..(Len(ts) - 1) |->
        [name |-> ts[i].name,
         method |-> ToUpperCase(ts[i].method),
         rawPath |-> ts[i].path,
         pathParams |-> NamesIn(ts[i].parameters, "path"),
         queryParams |-> NamesIn(ts[i].parameters, "query"),
         headerParams |-> NamesIn(ts[i].parameters, "header"),
         hasRequestBody |-> ts[i].requestBody.declared,
         requestContentType |-> "application/json"]]

generateCallTool(ts, baseUrl) ==
    [i \in DOMAIN ts |->
        [name |-> ts[i].name,
         method |-> ToUpperCase(ts[i].method),
         rawPath |-> ts[i].path,
         pathParams |-> NamesIn(ts[i].parameters, "path"),
         queryParams |-> NamesIn(ts[i].parameters, "query"),
         headerParams |-> NamesIn(ts[i].parameters, "header"),
         hasRequestBody |-> ts[i].requestBody.declared,
         requestContentType |-> RequestContentType(ts[i].requestBody)]]

(***************************************************************************)
(* Argument values and validation.  toolArgs is (isObject, fields); a      *)
(* field that is not there is undefined.  The validator is the zod schema  *)
(* json-schema-to-zod builds from the input contract: an object that       *)
(* strips undeclared keys, a declared key being optional unless listed in  *)
(* required; a property without a type becomes z.any(), which accepts      *)
(* every value, undefined included.                                        *)
(***************************************************************************)
Undefined == [kind |-> "undefined", text |-> ""]
NullValue == [kind |-> "null", text |-> "null"]
StringValue(t) == [kind |-> "string", text |-> t]
ObjectValue == [kind |-> "object", text |-> "[object Object]"]

ArgOf(fields, k) == IF k \in DOMAIN fields THEN fields[k] ELSE Undefined

Present(v) == v.kind # "undefined" /\ v.kind # "null"

TypeAccepts(t, v) ==
    \/ t = "string" /\ v.kind = "string"
    \/ t \in {"number", "integer"} /\ v.kind = "number"
    \/ t = "null" /\ v.kind = "null"
    \/ t = "object" /\ v.kind = "object"
    \/ t = "array" /\ v.kind = "array"

ZodAccepts(js, v) ==
    \/ js.type.kind = "none"
    \/ \E i \in DOMAIN js.type.names : TypeAccepts(js.type.names[i], v)

ZodIssues(inputSchema, fields) ==
    {k \in DOMAIN inputSchema.properties :
        LET v == ArgOf(fields, k) IN
        IF v.kind = "undefined"
        THEN k \in Range(RequiredOf(inputSchema))
             /\ ~ZodAccepts(inputSchema.properties[k], v)
        ELSE ~ZodAccepts(inputSchema.properties[k], v)}

\* line 675
ArgsToParse(toolArgs) == IF toolArgs.isObject THEN toolArgs.fields ELSE <<>>

\* zodSchema.parse: the declared keys of the input, or a ZodError
ZodParse(inputSchema, fields) ==
    [issues |-> ZodIssues(inputSchema, fields),
     data |-> [k \in DOMAIN inputSchema.properties |-> ArgOf(fields, k)]]

RECURSIVE IssueTexts(_)
IssueTexts(issues) ==
    IF issues = {} THEN <<>>
    ELSE LET k == CHOOSE x \in issues : TRUE
         IN <<k, " (invalid_type): Required">> \o IssueTexts(issues \ {k})

(***************************************************************************)
(* Request preparation (lines 692-740).                                    *)
(***************************************************************************)
Placeholder(name) == "{" \o name \o "}"

\* the tokens of the model that contain the character '{'
BraceTokens == {Placeholder(n) : n \in {"id", "q", "env"}} \cup {"{"}

Includes(text, tokens) == \E i \in DOMAIN text : text[i] \in tokens

encodeURIComponent(t) ==
    CASE t = "{" -> "%7B" [] t = "a/b" -> "a%2Fb" [] OTHER -> t

\* String.prototype.replace with a string pattern: the first occurrence only
Replace(text, pattern, replacement) ==
    IF \E i \in DOMAIN text : text[i] = pattern
    THEN LET i == CHOOSE j \in DOMAIN text :
                      text[j] = pattern /\ \A l \in 1..(j - 1) : text[l] # pattern
         IN [text EXCEPT ![i] = replacement]
    ELSE text

\* lines 693-696, from path parameter i on
RECURSIVE SubstitutePathParams(_, _, _, _)
SubstitutePathParams(urlPath, pathParams, i, validatedArgs) ==
    IF i > Len(pathParams) THEN urlPath
    ELSE LET val == ArgOf(validatedArgs, pathParams[i])
         IN SubstitutePathParams(
                IF Present(val)
                THEN Replace(urlPath, Placeholder(pathParams[i]),
                             encodeURIComponent(val.text))
                ELSE urlPath,
                pathParams, i + 1, validatedArgs)

\* the query map with null values put in as well
QueryParams_NullsToo(queryParams, validatedArgs) ==
    [k \in {queryParams[i] : i \in {j \in DOMAIN queryParams :
                                         ArgOf(validatedArgs, queryParams[j]) # Undefined}}
        |-> ArgOf(validatedArgs, k)]

\* lines 701-705
QueryParams(queryParams, validatedArgs) ==
    [k \in {queryParams[i] : i \in {j \in DOMAIN queryParams :
                                         Present(ArgOf(validatedArgs, queryParams[j]))}}
        |-> ArgOf(validatedArgs, k)]

toLowerCase(name) ==
    CASE name = "X-Token" -> "x-token" [] name = "Accept" -> "accept"
      [] name = "Authorization" -> "authorization" [] OTHER -> name

\* lines 708-712 and 735-736: later assignments to a key replace earlier ones
Headers(branch, validatedArgs) ==
    LET sent == {j \in DOMAIN branch.headerParams :
                     Present(ArgOf(validatedArgs, branch.headerParams[j]))}
        fromParams == {toLowerCase(branch.headerParams[j]) : j \in sent}
        withType == branch.hasRequestBody
                    /\ ArgOf(validatedArgs, "requestBody").kind # "undefined"
    IN [k \in {"Accept"} \cup fromParams
               \cup (IF withType THEN {"content-type"} ELSE {}) |->
           IF k = "content-type" /\ withType THEN branch.requestContentType
           ELSE IF k \in fromParams
           THEN LET j == CHOOSE l \in sent :
                             /\ toLowerCase(branch.headerParams[l]) = k
                             /\ \A l2 \in sent :
                                   toLowerCase(branch.headerParams[l2]) = k => l2 <= l
                IN ArgOf(validatedArgs, branch.headerParams[j]).text
           ELSE "application/json"]

\* lines 719-725 and 739
RequestData(branch, validatedArgs) ==
    IF branch.hasRequestBody THEN ArgOf(validatedArgs, "requestBody") ELSE Undefined

RequestUrl(baseUrl, urlPath) == IF baseUrl # <<>> THEN baseUrl \o urlPath ELSE urlPath

NoConfig == [method |-> "", url |-> <<>>, params |-> <<>>, headers |-> <<>>,
             data |-> Undefined]

(***************************************************************************)
(* Outcomes of axios(config) and their normalisation.                      *)
(***************************************************************************)
MAX_LEN == 200

NoData == [kind |-> "none", len |-> 0]
NoResponse == [status |-> 0, statusText |-> "", contentType |-> "", data |-> NoData]

\* what `await axios(config)` resolves with, or throws
Resolved(response) ==
    [kind |-> "response", response |-> response, request |-> FALSE,
     code |-> "", message |-> <<>>]
AxiosError(response, request, code, message) ==
    [kind |-> "AxiosError", response |-> response, request |-> request,
     code |-> code, message |-> message]
PlainError(message) ==
    [kind |-> "Error", response |-> NoResponse, request |-> FALSE,
     code |-> "", message |-> message]
NonError(text) ==
    [kind |-> "value", response |-> NoResponse, request |-> FALSE,
     code |-> "", message |-> text]
Nullish ==
    [kind |-> "nullish", response |-> NoResponse, request |-> FALSE,
     code |-> "", message |-> <<>>]

Min(a, b) == IF a < b THEN a ELSE b

\* text.substring(0, n), of a text known by its length
Substring(len, n) == "chars[0," \o ToString(Min(len, n)) \o ")"

\* the rendering with the ellipsis already at MAX_LEN characters
Truncated_EllipsisAtLimit(len) ==
    <<"Response: ", Substring(len, MAX_LEN)>>
    \o (IF len >= MAX_LEN THEN <<"...">> ELSE <<>>)

\* lines 353 and 357: the first MAX_LEN characters, then '...' if there are more
Truncated(len) ==
    <<"Response: ", Substring(len, MAX_LEN)>>
    \o (IF len > MAX_LEN THEN <<"...">> ELSE <<>>)

formatApiError(error) ==
    IF error.response # NoResponse
    THEN <<"API Error: Status ", ToString(error.response.status), " (",
           IF error.response.statusText # "" THEN error.response.statusText
           ELSE "Status text not available", "). ">>
         \o (IF error.response.data.kind = "string"
             THEN Truncated(error.response.data.len)
             ELSE IF error.response.data.kind = "object"
             THEN Truncated(error.response.data.len)
             ELSE <<"No response body received.">>)
    ELSE IF error.request
    THEN <<"API Network Error: No response received from the server. Check network connectivity or server availability.">>
         \o (IF error.code # "" THEN <<" (Code: ", error.code, ")">> ELSE <<>>)
    ELSE <<"API Request Setup Error: ">> \o error.message

TextResult(text) == [content |-> <<[type |-> "text", text |-> text]>>]

\* lines 772-784
ResponseText(response) ==
    IF response.contentType = "application/json" /\ response.data.kind = "object"
    THEN <<"JSON.stringify(data, null, 2)">>
    ELSE IF response.data.kind = "string" THEN <<"data">>
    ELSE IF response.data.kind # "none" THEN <<"String(data)">>
    ELSE <<"(Status: ", ToString(response.status), " - No body content)">>

SuccessResult(response) ==
    TextResult(<<"API Response (Status: ", ToString(response.status), "):\n">>
               \o ResponseText(response))

\* where a handler run ends: it returned a result, it threw, or it is
\* suspended in `await axios(config)`; log holds the console.error lines
\* the run wrote, by the source line that writes them
Returns(log, result) ==
    [kind |-> "returned", result |-> result, config |-> NoConfig, log |-> log]
Throws(log, error) ==
    [kind |-> "threw", result |-> TextResult(<<>>), config |-> NoConfig, log |-> log]
Awaits(log, config) ==
    [kind |-> "awaiting", result |-> TextResult(<<>>), config |-> config, log |-> log]

LogUnknownTool == "Error: Received request for unknown tool"          \* line 304
LogValidated == "Arguments validated successfully"                    \* line 677
LogInvalid == "Invalid arguments"                                     \* line 681
LogExecuting == "Executing tool"                                      \* line 766
LogExecutionError == "Error during execution of tool"                 \* line 792
LogHandlerMissing == "Error: Handler logic missing for tool"          \* line 312

\* lines 786-794: reading error.message of null or undefined throws a
\* TypeError out of the catch block
CatchBlock(log, error) ==
    IF error.kind = "nullish" THEN Throws(log, "TypeError")
    ELSE IF error.kind = "AxiosError"
    THEN Returns(Append(log, LogExecutionError), TextResult(formatApiError(error)))
    ELSE IF error.kind = "Error"
    THEN Returns(Append(log, LogExecutionError), TextResult(error.message))
    ELSE Returns(Append(log, LogExecutionError),
                 TextResult(<<"An unexpected error occurred: ">> \o error.message))

(***************************************************************************)
(* Inputs of the build-time functions.                                     *)
(***************************************************************************)
Heaps == [Nodes -> SchemaShapes]

\* a heap for the contract and naming checks: a string, and an object that
\* holds the string
SampleHeap ==
    [n \in Nodes |-> IF n = 1 THEN LeafNode(TString("string"), FALSE)
                     ELSE ObjectNode(FALSE, 1)]

ParamNames == {"", "id", "q"}
LocationOf(name) == IF name = "id" THEN "path" ELSE "query"

Parameters ==
    {[name |-> nm, in |-> LocationOf(nm), required |-> rq, schema |-> sc,
      description |-> <<>>] :
        nm \in ParamNames, rq \in BOOLEAN, sc \in {NoNode, 1, 2}}

SeqsUpTo(S, n) == UNION {[1..k -> S] : k \in 0..n}

ContentMaps ==
    { <<>>,
      <<[ctype |-> "application/json", schema |-> 2]>>,
      <<[ctype |-> "application/json", schema |-> NoNode]>>,
      <<[ctype |-> "text/plain", schema |-> 1]>>,
      <<[ctype |-> "text/plain", schema |-> 1],
        [ctype |-> "application/json", schema |-> 2]>> }

RequestBodies ==
    {NoRequestBody}
    \cup {[declared |-> TRUE, required |-> rq, description |-> <<>>, content |-> c] :
              rq \in BOOLEAN, c \in ContentMaps}

Operations ==
    {[operationId |-> <<>>, description |-> <<>>, summary |-> <<>>,
      parameters |-> ps, requestBody |-> b] :
        ps \in SeqsUpTo(Parameters, MaxParams), b \in RequestBodies}

\* operations of the naming check: declared identifier or none, no inputs
OperationIds == {<<>>, <<"getA">>, <<"getA", "_1">>, <<"getA", "_2">>}
NamedOperations ==
    {[operationId |-> id, description |-> <<>>, summary |-> <<>>,
      parameters |-> <<>>, requestBody |-> NoRequestBody] : id \in OperationIds}

PathTemplates == {<<"/a">>, <<"/a", "/">>, <<"/b">>}
DocMethods == {"get", "post"}

PathItems ==
    {[path |-> p, ops |-> o] :
        p \in PathTemplates,
        o \in UNION {[ms -> NamedOperations] : ms \in SUBSET DocMethods}}

\* api.paths is an object: its keys are distinct
DistinctPaths(ps) == \A i, j \in DOMAIN ps : i # j => ps[i].path # ps[j].path

Documents ==
    {[paths |-> ps, servers |-> <<>>] :
        ps \in {q \in SeqsUpTo(PathItems, MaxPaths) : DistinctPaths(q)}}

NoOperation == [none |-> TRUE]
NoDocument == [none |-> TRUE]

(***************************************************************************)
(* Specification of the schema translator: any heap, any root.             *)
(***************************************************************************)
InitTranslate ==
    /\ heap \in Heaps
    /\ schema \in Nodes
    /\ jsonSchema = NotRun
    /\ operation = NoOperation /\ contract = NotRun
    /\ api = NoDocument /\ tools = NotRun
    /\ NoServer /\ NoWebServer /\ NoUnit

MapSchema ==
    /\ jsonSchema = NotRun
    /\ jsonSchema' = mapOpenApiSchemaToJsonSchema(heap, schema, 1)
    /\ UNCHANGED <<heap, schema, operation, contract, api, tools, serveVars, webVars, unitVars>>

NextTranslate == MapSchema

SpecTranslate == InitTranslate /\ [][NextTranslate]_vars

(***************************************************************************)
(* Specification of the input contract assembler: any operation.           *)
(***************************************************************************)
InitContract ==
    /\ heap = SampleHeap
    /\ schema = NoNode /\ jsonSchema = NotRun
    /\ operation \in Operations
    /\ contract = NotRun
    /\ api = NoDocument /\ tools = NotRun
    /\ NoServer /\ NoWebServer /\ NoUnit

GenerateInputSchema ==
    /\ contract = NotRun
    /\ contract' = generateInputSchema(heap, operation)
    /\ UNCHANGED <<heap, schema, jsonSchema, operation, api, tools, serveVars, webVars, unitVars>>

NextContract == GenerateInputSchema

SpecContract == InitContract /\ [][NextContract]_vars

(***************************************************************************)
(* Specification of the operation extractor: any document.                 *)
(***************************************************************************)
InitExtract ==
    /\ heap = SampleHeap
    /\ schema = NoNode /\ jsonSchema = NotRun
    /\ operation = NoOperation /\ contract = NotRun
    /\ api \in Documents
    /\ tools = NotRun
    /\ NoServer /\ NoWebServer /\ NoUnit

ExtractTools ==
    /\ tools = NotRun
    /\ tools' = extractToolsFromApi(heap, api)
    /\ UNCHANGED <<heap, schema, jsonSchema, operation, contract, api, serveVars, webVars, unitVars>>

NextExtract == ExtractTools

SpecExtract == InitExtract /\ [][NextExtract]_vars

(***************************************************************************)
(* Specification of the build on documents with data-quality issues:       *)
(* operations without a derivable identifier, unresolved references, and   *)
(* schemas that lead back to themselves.  Node 2 is the schema of the      *)
(* parameter q.                                                            *)
(***************************************************************************)
UnresolvedRef == RefNode("#/components/schemas/X")

BuildHeaps ==
    { \* an object whose property is an unresolved reference
      [n \in Nodes |-> IF n = 2 THEN ObjectNode(FALSE, 1) ELSE UnresolvedRef],
      \* a nullable object whose property is an unresolved reference
      [n \in Nodes |-> IF n = 2 THEN ObjectNode(TRUE, 1) ELSE UnresolvedRef],
      \* an array whose items are an unresolved reference
      [n \in Nodes |-> IF n = 2 THEN ArrayNode(FALSE, 1) ELSE UnresolvedRef],
      \* an unresolved reference in place of the schema
      [n \in Nodes |-> UnresolvedRef],
      \* an object whose property is the object itself
      [n \in Nodes |-> IF n = 2 THEN ObjectNode(FALSE, 2) ELSE UnresolvedRef],
      SampleHeap }

BuildOperations ==
    {[operationId |-> id, description |-> <<>>, summary |-> <<>>,
      parameters |-> ps, requestBody |-> NoRequestBody] :
        id \in {<<>>, <<"getA">>},
        ps \in {<<>>, <<[name |-> "q", in |-> "query", required |-> FALSE, schema |-> 2,
                         description |-> <<>>]>>}}

BuildPathItems ==
    {[path |-> p, ops |-> o] :
        p \in {<<>>, <<"/a">>, <<"/b">>},
        o \in UNION {[ms -> BuildOperations] : ms \in SUBSET DocMethods}}

BuildDocuments ==
    {[paths |-> ps, servers |-> <<>>] :
        ps \in {q \in SeqsUpTo(BuildPathItems, MaxPaths) : DistinctPaths(q)}}

InitBuild ==
    /\ heap \in BuildHeaps
    /\ schema = NoNode /\ jsonSchema = NotRun
    /\ operation = NoOperation /\ contract = NotRun
    /\ api \in BuildDocuments
    /\ tools = NotRun
    /\ NoServer /\ NoWebServer /\ NoUnit

NextBuild == ExtractTools

SpecBuild == InitBuild /\ [][NextBuild]_vars

(***************************************************************************)
(* getToolsFromOpenApi, the programmatic API.  The description handed in   *)
(* is a parsed document or a path; SwaggerParser is called for a path and  *)
(* whenever dereferencing is asked for, and resolves to the document or    *)
(* rejects with an Error.  A thrown value is a record (isError, message).  *)
(* filterFn is absent or one of the named functions.                       *)
(***************************************************************************)
ErrorValue(isError, message) == [isError |-> isError, message |-> message]

ParserError == ErrorValue(TRUE, <<"Error opening file">>)
StackError == ErrorValue(TRUE, <<"Maximum call stack size exceeded">>)

FailedPrefix == "Failed to extract tools from OpenAPI: "

\* the catch block: an Error is wrapped with the prefix, anything else is
\* thrown on as it is
Rethrow(e) ==
    IF e.isError
    THEN [error |-> ErrorValue(TRUE, <<FailedPrefix>> \o e.message)]
    ELSE [error |-> e]

NoFilterFn == "undefined"
FilterFns == {NoFilterFn, "getOnly", "throwsError", "throwsString"}

FilterThrows(fn) == fn \in {"throwsError", "throwsString"}

FilterThrown(fn) ==
    IF fn = "throwsError" THEN ErrorValue(TRUE, <<"filter failed">>)
    ELSE ErrorValue(FALSE, <<"filter failed">>)

\* filterFn(tool) for the functions that return
FilterFn(fn, tool) == fn = "getOnly" => tool.method = "get"

\* the exclusion done on the tool's name instead of its operationId
ExcludeById_ByName(toolSeq, ids) ==
    IF Len(ids) > 0
    THEN SelectSeq(toolSeq, LAMBDA tool : tool.name \notin Range(ids))
    ELSE toolSeq

\* filteredTools.filter((tool) => !excludeSet.has(tool.operationId))
ExcludeById(toolSeq, ids) ==
    IF Len(ids) > 0
    THEN SelectSeq(toolSeq, LAMBDA tool : tool.operationId \notin Range(ids))
    ELSE toolSeq

\* { ...tool, baseUrl: baseUrl || '' }
WithBaseUrl(tool, baseUrl) ==
    [f \in DOMAIN tool \cup {"baseUrl"} |->
        IF f = "baseUrl" THEN (IF baseUrl = NullUrl THEN <<>> ELSE baseUrl)
        ELSE tool[f]]

ParserCalled(input, opts) == ~input.isDocument \/ opts.dereference

getToolsFromOpenApi(h, input, doc, opts) ==
    IF ParserCalled(input, opts) /\ input.parser = "rejects"
    THEN Rethrow(ParserError)
    ELSE LET allTools == extractToolsFromApi(h, doc) IN
         IF Thrown(allTools) THEN Rethrow(StackError)
         ELSE LET baseUrl == determineBaseUrl(doc, opts.baseUrl)
                  excluded == ExcludeById(allTools.tools, opts.excludeOperationIds)
              IN IF opts.filterFn = NoFilterFn
                 THEN [tools |-> [i \in DOMAIN excluded |->
                                     WithBaseUrl(excluded[i], baseUrl)]]
                 ELSE IF FilterThrows(opts.filterFn) /\ excluded # <<>>
                 THEN Rethrow(FilterThrown(opts.filterFn))
                 ELSE LET filteredTools ==
                              SelectSeq(excluded,
                                        LAMBDA tool : FilterFn(opts.filterFn, tool))
                      IN [tools |-> [i \in DOMAIN filteredTools |->
                                        WithBaseUrl(filteredTools[i], baseUrl)]]

(***************************************************************************)
(* Specification of the programmatic API: one call of getToolsFromOpenApi  *)
(* on any small description, with any options.                             *)
(***************************************************************************)
ApiHeaps ==
    { SampleHeap,
      [n \in Nodes |-> IF n = 2 THEN ObjectNode(FALSE, 2)
                       ELSE LeafNode(TString("string"), FALSE)] }

ApiOperations ==
    {[operationId |-> id, description |-> <<>>, summary |-> <<>>,
      parameters |-> ps, requestBody |-> NoRequestBody] :
        id \in {<<>>, <<"getA">>}, ps \in {<<>>}}
    \cup {[operationId |-> <<"getA">>, description |-> <<>>, summary |-> <<>>,
           parameters |-> <<[name |-> "q", in |-> "query", required |-> FALSE,
                             schema |-> 2, description |-> <<>>]>>,
           requestBody |-> NoRequestBody]}

ApiPathItems ==
    {[path |-> p, ops |-> o] :
        p \in {<<"/a">>, <<"/b">>},
        o \in UNION {[ms -> ApiOperations] : ms \in (SUBSET DocMethods) \ {{}}}}

ApiDocuments ==
    {[paths |-> ps, servers |-> sv] :
        ps \in {q \in SeqsUpTo(ApiPathItems, MaxPaths) : DistinctPaths(q)},
        sv \in {<<>>, <<[url |-> <<"https://api.example.com", "/">>]>>}}

ApiInputs ==
    {[isDocument |-> d, parser |-> p] : d \in BOOLEAN, p \in {"resolves", "rejects"}}

ExcludeLists == {<<>>, <<<<"getA">>>>, <<<<"postB">>, <<"getA">>>>}

GetToolsOptions ==
    {[baseUrl |-> b, dereference |-> d, excludeOperationIds |-> x, filterFn |-> f] :
        b \in {<<>>, <<"https://override.example.com">>}, d \in BOOLEAN,
        x \in ExcludeLists, f \in FilterFns}

InitApi ==
    /\ heap \in ApiHeaps
    /\ schema = NoNode /\ jsonSchema = NotRun
    /\ operation = NoOperation /\ contract = NotRun
    /\ api \in ApiDocuments
    /\ tools = NotRun
    /\ NoServer /\ NoWebServer
    /\ baseUrlOption = <<>> /\ resolvedBaseUrl = NotRun
    /\ caughtError = NotRun /\ handled = NotRun
    /\ specPathOrUrl \in ApiInputs
    /\ options \in GetToolsOptions
    /\ getToolsResult = NotRun

GetToolsFromOpenApi ==
    /\ getToolsResult = NotRun
    /\ getToolsResult' = getToolsFromOpenApi(heap, specPathOrUrl, api, options)
    /\ UNCHANGED <<buildVars, serveVars, webVars, baseUrlOption, resolvedBaseUrl,
                   caughtError, handled, specPathOrUrl, options>>

NextApi == GetToolsFromOpenApi

SpecApi == InitApi /\ [][NextApi]_vars

(***************************************************************************)
(* Specification of the base URL resolution: any declared servers, with    *)
(* or without the --base-url option.                                       *)
(***************************************************************************)
MaxServers == 2    \* declared servers of a document

ServerUrls ==
    { <<>>, <<"/">>,
      <<"https://a.example.com">>, <<"https://a.example.com", "/">>,
      <<"https://b.example.com", "/v1">> }

ServerDocuments ==
    {[paths |-> <<>>, servers |-> [i \in DOMAIN urls |-> [url |-> urls[i]]]] :
        urls \in SeqsUpTo(ServerUrls, MaxServers)}

\* <<>> is the option not given
BaseUrlOptions ==
    {<<>>, <<"https://override.example.com">>, <<"https://override.example.com", "/">>}

InitBaseUrl ==
    /\ heap = <<>> /\ schema = NoNode /\ jsonSchema = NotRun
    /\ operation = NoOperation /\ contract = NotRun
    /\ api \in ServerDocuments
    /\ tools = NotRun
    /\ NoServer /\ NoWebServer
    /\ baseUrlOption \in BaseUrlOptions
    /\ resolvedBaseUrl = NotRun
    /\ caughtError = NotRun /\ handled = NotRun
    /\ NoApi

DetermineBaseUrl ==
    /\ resolvedBaseUrl = NotRun
    /\ resolvedBaseUrl' = [url |-> determineBaseUrl(api, baseUrlOption)]
    /\ UNCHANGED <<buildVars, serveVars, webVars, baseUrlOption, caughtError, handled,
                   apiVars>>

NextBaseUrl == DetermineBaseUrl

SpecBaseUrl == InitBaseUrl /\ [][NextBaseUrl]_vars

(***************************************************************************)
(* The CallTool request handler of the generated server (lines 298-314),   *)
(* with the branch generated for each tool (lines 744-795).  The handler   *)
(* has one suspension point, `await axios(config)`.                        *)
(***************************************************************************)
First(seq, Test(_)) ==
    CHOOSE i \in DOMAIN seq : Test(seq[i]) /\ \A j \in 1..(i - 1) : ~Test(seq[j])

\* line 697, with a test for a leading '{' only
PathUnresolved_Leading(urlPath) == Len(urlPath) > 0 /\ urlPath[1] \in BraceTokens

\* line 697: urlPath.includes('{')
PathUnresolved(urlPath) == Includes(urlPath, BraceTokens)

\* the branch with the validation failure logged but not returned
RunBranch_FallThrough(branch, toolDefinition, toolName, toolArgs, baseUrl) ==
    LET parsed == ZodParse(toolDefinition.inputSchema, ArgsToParse(toolArgs))
        validatedArgs == parsed.data
        urlPath == SubstitutePathParams(branch.rawPath, branch.pathParams, 1,
                                        validatedArgs)
        log == IF parsed.issues # {} THEN <<LogInvalid>> ELSE <<LogValidated>>
    IN IF PathUnresolved(urlPath)
       THEN CatchBlock(log, PlainError(
                <<"Validation passed but failed to resolve path parameters in URL: ">>
                \o urlPath \o <<". Check schema/validation logic.">>))
       ELSE Awaits(Append(log, LogExecuting),
                   [method |-> branch.method,
                    url |-> RequestUrl(baseUrl, urlPath),
                    params |-> QueryParams(branch.queryParams, validatedArgs),
                    headers |-> Headers(branch, validatedArgs),
                    data |-> RequestData(branch, validatedArgs)])

\* the branch with every placeholder of the raw path replaced by the text
\* of its value, absent values included
RunBranch_SubstituteAll(branch, toolDefinition, toolName, toolArgs, baseUrl) ==
    LET parsed == ZodParse(toolDefinition.inputSchema, ArgsToParse(toolArgs))
    IN IF parsed.issues # {}
       THEN Returns(<<LogInvalid>>,
                    TextResult(<<"Invalid arguments for tool '">> \o toolName
                               \o <<"': ">> \o IssueTexts(parsed.issues)))
       ELSE LET validatedArgs == parsed.data
                urlPath == [i \in DOMAIN branch.rawPath |->
                               IF \E j \in DOMAIN branch.pathParams :
                                      branch.rawPath[i] = Placeholder(branch.pathParams[j])
                               THEN "undefined" ELSE branch.rawPath[i]]
            IN Awaits(<<LogValidated, LogExecuting>>,
                      [method |-> branch.method,
                       url |-> RequestUrl(baseUrl, urlPath),
                       params |-> QueryParams(branch.queryParams, validatedArgs),
                       headers |-> Headers(branch, validatedArgs),
                       data |-> RequestData(branch, validatedArgs)])

\* lines 747-769: validation, request preparation, up to `await axios(config)`
RunBranch(branch, toolDefinition, toolName, toolArgs, baseUrl) ==
    LET parsed == ZodParse(toolDefinition.inputSchema, ArgsToParse(toolArgs))
    IN IF parsed.issues # {}
       THEN Returns(<<LogInvalid>>,
                    TextResult(<<"Invalid arguments for tool '">> \o toolName
                               \o <<"': ">> \o IssueTexts(parsed.issues)))
       ELSE LET validatedArgs == parsed.data
                urlPath == SubstitutePathParams(branch.rawPath, branch.pathParams, 1,
                                                validatedArgs)
            IN IF PathUnresolved(urlPath)
               THEN CatchBlock(<<LogValidated>>, PlainError(
                        <<"Validation passed but failed to resolve path parameters in URL: ">>
                        \o urlPath \o <<". Check schema/validation logic.">>))
               ELSE Awaits(<<LogValidated, LogExecuting>>,
                           [method |-> branch.method,
                            url |-> RequestUrl(baseUrl, urlPath),
                            params |-> QueryParams(branch.queryParams, validatedArgs),
                            headers |-> Headers(branch, validatedArgs),
                            data |-> RequestData(branch, validatedArgs)])

Listed(list, toolName) == \E i \in DOMAIN list : list[i].name = toolName

\* the handler with the unknown-tool test left out: an unlisted name runs
\* the first branch
CallToolHandler_NoLookup(list, code, baseUrl, toolName, toolArgs) ==
    IF Len(code) > 0 /\ Len(list) > 0
    THEN RunBranch(code[1], list[1], toolName, toolArgs, baseUrl)
    ELSE Returns(<<LogHandlerMissing>>, TextResult(
             <<"Error: Internal server error - handler not implemented for tool: ">>
             \o toolName))

\* lines 298-314: from the request to the first return or suspension
CallToolHandler(list, code, baseUrl, toolName, toolArgs) ==
    IF ~Listed(list, toolName)
    THEN Returns(<<LogUnknownTool>>,
                 TextResult(<<"Error: Unknown tool requested: ">> \o toolName))
    ELSE LET toolDefinition == list[First(list, LAMBDA t : t.name = toolName)]
         IN IF \E b \in DOMAIN code : code[b].name = toolName
            THEN RunBranch(code[First(code, LAMBDA b : b.name = toolName)],
                           toolDefinition, toolName, toolArgs, baseUrl)
            ELSE Returns(<<LogHandlerMissing>>, TextResult(
                     <<"Error: Internal server error - handler not implemented for tool: ">>
                     \o toolName))

\* the list handler answering with the list less its first tool
ListToolsHandler_DropFirst(list) ==
    [tools |-> IF Len(list) > 0 THEN Tail(list) ELSE list]

\* lines 291-295: return { tools: toolsList }
ListToolsHandler(list) == [tools |-> list]

\* lines 771-794: from the settling of axios(config) to the return
AfterAxios(log, outcome) ==
    IF outcome.kind = "response" THEN Returns(log, SuccessResult(outcome.response))
    ELSE CatchBlock(log, outcome)

(***************************************************************************)
(* Inputs of the generated server.                                         *)
(***************************************************************************)
MaxCalls == 1      \* tool calls a behaviour holds

CallIds == 1..MaxCalls

\* a string, and a nullable string
ServeHeap ==
    [n \in Nodes |-> IF n = 1 THEN LeafNode(TString("string"), FALSE)
                     ELSE LeafNode(TString("string"), TRUE)]

Param(nm, loc, rq, sc) ==
    [name |-> nm, in |-> loc, required |-> rq, schema |-> sc, description |-> <<>>]

Op(ps, body) ==
    [operationId |-> <<>>, description |-> <<>>, summary |-> <<>>,
     parameters |-> ps, requestBody |-> body]

\* GET /users/{id}: id (path, required, string), q (query, nullable string);
\* GET /items/{id}: id (path, required, declared without a schema)
ServePaths ==
    << [path |-> <<"/users/", "{id}">>,
        ops |-> [m \in {"get"} |->
                    Op(<<Param("id", "path", TRUE, 1), Param("q", "query", FALSE, 2)>>,
                       NoRequestBody)]],
       [path |-> <<"/items/", "{id}">>,
        ops |-> [m \in {"get"} |->
                    Op(<<Param("id", "path", TRUE, NoNode)>>, NoRequestBody)]] >>

ServerLists ==
    { <<>>,
      <<[url |-> <<"https://api.example.com", "/">>]>>,
      <<[url |-> <<"https://", "{env}", ".example.com">>]>> }

ServeDocuments == {[paths |-> ServePaths, servers |-> sv] : sv \in ServerLists}

ArgNames == {"id", "q"}
ArgValues == {Undefined, NullValue, StringValue("42"), StringValue("{")}
ToolArgs ==
    {[isObject |-> TRUE, fields |-> f] : f \in [ArgNames -> ArgValues]}
    \cup {[isObject |-> FALSE, fields |-> <<>>]}

UnlistedName == <<"deleteEverything">>
RequestedNames(list) == {list[i].name : i \in DOMAIN list} \cup {UnlistedName}

Response(status, statusText, contentType, data) ==
    [status |-> status, statusText |-> statusText, contentType |-> contentType,
     data |-> data]

AxiosOutcomes ==
    { Resolved(Response(200, "OK", "application/json", [kind |-> "object", len |-> 14])),
      Resolved(Response(204, "No Content", "", NoData)),
      AxiosError(Response(404, "Not Found", "application/json",
                          [kind |-> "object", len |-> 250]),
                 TRUE, "ERR_BAD_REQUEST", <<"Request failed with status code 404">>),
      AxiosError(Response(500, "", "text/plain", [kind |-> "string", len |-> 200]),
                 TRUE, "ERR_BAD_RESPONSE", <<"Request failed with status code 500">>),
      AxiosError(NoResponse, TRUE, "ECONNREFUSED", <<"connect ECONNREFUSED">>),
      AxiosError(NoResponse, TRUE, "", <<"Network Error">>),
      AxiosError(NoResponse, FALSE, "", <<"Invalid URL">>),
      PlainError(<<"Cannot read properties of undefined">>),
      NonError(<<"rejected with a string">>),
      Nullish }

IdleCall ==
    [pc |-> "idle", toolName |-> <<>>, toolArgs |-> [isObject |-> FALSE, fields |-> <<>>],
     config |-> NoConfig, result |-> TextResult(<<>>), log |-> <<>>,
     outcome |-> NotRun]

\* a settling that completes every suspended call with the result of call c
Resume_Broadcast(cs, c, outcome) ==
    LET r == AfterAxios(cs[c].log, outcome)
    IN [d \in DOMAIN cs |->
           IF d = c
           THEN [cs[d] EXCEPT !.pc = r.kind, !.result = r.result, !.log = r.log,
                              !.outcome = outcome]
           ELSE IF cs[d].pc = "awaiting"
           THEN [cs[d] EXCEPT !.pc = r.kind, !.result = r.result, !.log = r.log]
           ELSE cs[d]]

\* lines 769-794: `await axios(config)` of call c settles with outcome and
\* the handler run of c, no other, goes on to its return
Resume(cs, c, outcome) ==
    LET r == AfterAxios(cs[c].log, outcome)
    IN [cs EXCEPT ![c].pc = r.kind, ![c].result = r.result, ![c].log = r.log,
                  ![c].outcome = outcome]

(***************************************************************************)
(* Specification of the generated server: built from a document, then any  *)
(* calls, each settling in any way.                                        *)
(***************************************************************************)
InitServe ==
    /\ heap = ServeHeap
    /\ schema = NoNode /\ jsonSchema = NotRun
    /\ operation = NoOperation /\ contract = NotRun
    /\ api \in ServeDocuments
    /\ tools = extractToolsFromApi(heap, api)
    /\ toolsList = generateListTools(tools.tools)
    /\ callToolCode = generateCallTool(tools.tools, determineBaseUrl(api, <<>>))
    /\ API_BASE_URL = BaseUrlConstant(determineBaseUrl(api, <<>>))
    /\ calls = [c \in CallIds |-> IdleCall]
    /\ requests = {}
    /\ listResponse = NotRun
    /\ NoWebServer /\ NoUnit

\* the handler run for call c, up to its first return or suspension, on
\* arguments drawn from argSet
ReceiveCall(c, argSet) ==
    /\ calls[c].pc = "idle"
    /\ \E toolName \in RequestedNames(toolsList), toolArgs \in argSet :
          LET r == CallToolHandler(toolsList, callToolCode, API_BASE_URL,
                                   toolName, toolArgs)
          IN /\ calls' = [calls EXCEPT ![c] =
                            [pc |-> r.kind, toolName |-> toolName, toolArgs |-> toolArgs,
                             config |-> r.config, result |-> r.result, log |-> r.log,
                             outcome |-> NotRun]]
             /\ requests' = IF r.kind = "awaiting"
                            THEN requests \cup {[call |-> c, config |-> r.config]}
                            ELSE requests
    /\ UNCHANGED <<buildVars, toolsList, callToolCode, API_BASE_URL, listResponse, webVars, unitVars>>

CallTool(c) == ReceiveCall(c, ToolArgs)

AxiosSettles(c) ==
    /\ calls[c].pc = "awaiting"
    /\ \E outcome \in AxiosOutcomes : calls' = Resume(calls, c, outcome)
    /\ UNCHANGED <<buildVars, toolsList, callToolCode, API_BASE_URL, requests, listResponse,
                   webVars, unitVars>>

\* lines 291-295: a ListTools request is answered
ListTools ==
    /\ listResponse' = ListToolsHandler(toolsList)
    /\ UNCHANGED <<buildVars, toolsList, callToolCode, API_BASE_URL, calls, requests,
                   webVars, unitVars>>

NextServe ==
    \/ \E c \in CallIds : CallTool(c)
    \/ \E c \in CallIds : AxiosSettles(c)
    \/ ListTools

SpecServe == InitServe /\ [][NextServe]_vars

(***************************************************************************)
(* Specification of concurrent calls: one call more than MaxCalls, so that *)
(* at least two are in flight, on few arguments.                           *)
(***************************************************************************)
ConcurrentCallIds == 1..(MaxCalls + 1)

ConcurrentDocument ==
    [paths |-> ServePaths, servers |-> <<[url |-> <<"https://api.example.com">>]>>]

ConcurrentArgs ==
    {[isObject |-> TRUE, fields |-> [n \in ArgNames |-> IF n = "id" THEN v ELSE Undefined]] :
        v \in {Undefined, StringValue("42"), StringValue("{")}}

InitConcurrent ==
    /\ heap = ServeHeap
    /\ schema = NoNode /\ jsonSchema = NotRun
    /\ operation = NoOperation /\ contract = NotRun
    /\ api = ConcurrentDocument
    /\ tools = extractToolsFromApi(heap, api)
    /\ toolsList = generateListTools(tools.tools)
    /\ callToolCode = generateCallTool(tools.tools, determineBaseUrl(api, <<>>))
    /\ API_BASE_URL = BaseUrlConstant(determineBaseUrl(api, <<>>))
    /\ calls = [c \in ConcurrentCallIds |-> IdleCall]
    /\ requests = {}
    /\ listResponse = NotRun
    /\ NoWebServer /\ NoUnit

ConcurrentCall(c) == ReceiveCall(c, ConcurrentArgs)

NextConcurrent ==
    \/ \E c \in ConcurrentCallIds : ConcurrentCall(c)
    \/ \E c \in ConcurrentCallIds : AxiosSettles(c)

SpecConcurrent == InitConcurrent /\ [][NextConcurrent]_vars

\* config.timeout in milliseconds; axios' default, 0, is no timeout
TimeoutOf(config) == IF "timeout" \in DOMAIN config THEN config.timeout ELSE 0

\* the same calls under the scheduling the code has: the event loop runs
\* the handler of every received request, and a request to a downstream
\* that does not answer settles only when its configuration bounds it
SpecPending ==
    /\ InitConcurrent /\ [][NextConcurrent]_vars
    /\ \A c \in ConcurrentCallIds : WF_vars(ConcurrentCall(c))
    /\ \A c \in ConcurrentCallIds :
          WF_vars(TimeoutOf(calls[c].config) > 0 /\ AxiosSettles(c))

(***************************************************************************)
(* Specification of request dispatch: one call to a server whose tools     *)
(* have path, query and header parameters and request bodies.              *)
(***************************************************************************)
\* 1: a string, 2: a nullable string, 3: a schema that declares no type,
\* 4: an object
DispatchHeap ==
    [n \in 1..4 |->
        CASE n = 1 -> LeafNode(TString("string"), FALSE)
          [] n = 2 -> LeafNode(TString("string"), TRUE)
          [] n = 3 -> LeafNode(TNone, FALSE)
          [] n = 4 -> ObjectNode(FALSE, NoNode)]

Body(rq, content) ==
    [declared |-> TRUE, required |-> rq, description |-> <<>>, content |-> content]

\* GET /users/{id}: id (path, required), q (query, nullable), Authorization (header);
\* POST /items: t (query, required, schema {}), JSON body, required;
\* PUT /notes: text/plain or JSON body, optional;
\* PATCH /notes: text/plain body, required
DispatchPaths ==
    << [path |-> <<"/users/", "{id}">>,
        ops |-> [m \in {"get"} |->
                    Op(<<Param("id", "path", TRUE, 1), Param("q", "query", FALSE, 2),
                         Param("Authorization", "header", FALSE, 1)>>,
                       NoRequestBody)]],
       [path |-> <<"/items">>,
        ops |-> [m \in {"post"} |->
                    Op(<<Param("t", "query", TRUE, 3)>>,
                       Body(TRUE, <<[ctype |-> "application/json", schema |-> 4]>>))]],
       [path |-> <<"/notes">>,
        ops |-> [m \in {"put", "patch"} |->
                    IF m = "put"
                    THEN Op(<<>>, Body(FALSE, <<[ctype |-> "text/plain", schema |-> 1],
                                                [ctype |-> "application/json", schema |-> 4]>>))
                    ELSE Op(<<>>, Body(TRUE, <<[ctype |-> "text/plain", schema |-> 1]>>))]] >>

DispatchDocument ==
    [paths |-> DispatchPaths, servers |-> <<[url |-> <<"https://api.example.com">>]>>]

DispatchArgNames == {"id", "q", "Authorization", "t", "requestBody"}
DispatchArgValues == {Undefined, NullValue, StringValue("a/b"), ObjectValue}
DispatchArgs ==
    {[isObject |-> TRUE, fields |-> f] : f \in [DispatchArgNames -> DispatchArgValues]}
    \cup {[isObject |-> FALSE, fields |-> <<>>]}

\* the one call of this specification
FirstCall == CHOOSE c \in CallIds : \A d \in CallIds : c <= d

InitDispatch ==
    /\ heap = DispatchHeap
    /\ schema = NoNode /\ jsonSchema = NotRun
    /\ operation = NoOperation /\ contract = NotRun
    /\ api = DispatchDocument
    /\ tools = extractToolsFromApi(heap, api)
    /\ toolsList = generateListTools(tools.tools)
    /\ callToolCode = generateCallTool(tools.tools, determineBaseUrl(api, <<>>))
    /\ API_BASE_URL = BaseUrlConstant(determineBaseUrl(api, <<>>))
    /\ calls = [c \in CallIds |-> IdleCall]
    /\ requests = {}
    /\ listResponse = NotRun
    /\ NoWebServer /\ NoUnit

DispatchCall == ReceiveCall(FirstCall, DispatchArgs)

DispatchSettles == AxiosSettles(FirstCall)

NextDispatch == DispatchCall \/ DispatchSettles

SpecDispatch == InitDispatch /\ [][NextDispatch]_vars

(***************************************************************************)
(* Specification of the generated branches: a server generated from any    *)
(* small description (no tool, several tools, tools named by suffix), and  *)
(* one call to it.                                                         *)
(***************************************************************************)
BranchDocuments == {d \in ApiDocuments : d.servers = <<>>}

BranchArgs ==
    {[isObject |-> TRUE, fields |-> [n \in ArgNames |-> IF n = "q" THEN v ELSE Undefined]] :
        v \in {Undefined, StringValue("42")}}

InitBranches ==
    /\ heap = SampleHeap
    /\ schema = NoNode /\ jsonSchema = NotRun
    /\ operation = NoOperation /\ contract = NotRun
    /\ api \in BranchDocuments
    /\ tools = extractToolsFromApi(heap, api)
    /\ toolsList = generateListTools(tools.tools)
    /\ callToolCode = generateCallTool(tools.tools, determineBaseUrl(api, <<>>))
    /\ API_BASE_URL = BaseUrlConstant(determineBaseUrl(api, <<>>))
    /\ calls = [c \in CallIds |-> IdleCall]
    /\ requests = {}
    /\ listResponse = NotRun
    /\ NoWebServer /\ NoUnit

BranchCall == ReceiveCall(FirstCall, BranchArgs)

BranchSettles == AxiosSettles(FirstCall)

NextBranches == BranchCall \/ BranchSettles

SpecBranches == InitBranches /\ [][NextBranches]_vars

(***************************************************************************)
(* Specification of the catch block of a tool's branch: any value thrown   *)
(* inside the try block.                                                   *)
(***************************************************************************)
ErrorStatuses == {400, 404, 500}
BodyLengths == {2, MAX_LEN - 1, MAX_LEN, MAX_LEN + 1}

ErrorBodies ==
    {NoData} \cup {[kind |-> k, len |-> n] : k \in {"string", "object"}, n \in BodyLengths}

ErrorResponses ==
    {Response(st, tx, "application/json", d) :
        st \in ErrorStatuses, tx \in {"", "Error"}, d \in ErrorBodies}

DispatchErrorMessage ==
    <<"Validation passed but failed to resolve path parameters in URL: ",
      "/users/", "{id}", ". Check schema/validation logic.">>

ThrownValues ==
    {AxiosError(r, TRUE, "ERR_BAD_REQUEST", <<"Request failed">>) : r \in ErrorResponses}
    \cup {AxiosError(NoResponse, TRUE, code, <<"Network Error">>) :
              code \in {"", "ECONNREFUSED"}}
    \cup {AxiosError(NoResponse, FALSE, "", msg) :
              msg \in {<<"Invalid URL">>, <<"Unsupported protocol">>}}
    \cup {PlainError(DispatchErrorMessage),
          PlainError(<<"Cannot read properties of undefined">>),
          NonError(<<"rejected with a string">>),
          Nullish}

InitCatch ==
    /\ heap = <<>> /\ schema = NoNode /\ jsonSchema = NotRun
    /\ operation = NoOperation /\ contract = NotRun
    /\ api = NoDocument /\ tools = NotRun
    /\ NoServer /\ NoWebServer
    /\ baseUrlOption = <<>> /\ resolvedBaseUrl = NotRun
    /\ caughtError \in ThrownValues
    /\ handled = NotRun
    /\ NoApi

Catch ==
    /\ handled = NotRun
    /\ handled' = CatchBlock(<<>>, caughtError)
    /\ UNCHANGED <<buildVars, serveVars, webVars, baseUrlOption, resolvedBaseUrl,
                   caughtError, apiVars>>

NextCatch == Catch

SpecCatch == InitCatch /\ [][NextCatch]_vars

(***************************************************************************)
(* Properties of the build-time functions.                                 *)
(***************************************************************************)
Extracted == HasRun(tools) /\ ~Thrown(tools)

\* the tools before tool i that were derived from the same base name
EarlierOfSameBase(T, i) == {j \in 1..(i - 1) : T[j].operationId = T[i].operationId}

\* base, base_1, base_2, ...: the names the collision loop can give to base
IsNameFor(name, base) ==
    name = base \/ (Len(name) = Len(base) + 1 /\ SubSeq(name, 1, Len(base)) = base)

\* C1: the list extractToolsFromApi returns has pairwise distinct tool names.
C1_UniqueToolNames ==
    Extracted =>
        \A i, j \in DOMAIN tools.tools :
            i # j => tools.tools[i].name # tools.tools[j].name

\* two operations derived the same base name, one declared and one synthesized
C1_Witness ==
    /\ Extracted
    /\ \E i, j \in DOMAIN tools.tools :
          /\ i < j
          /\ tools.tools[i].operationId = tools.tools[j].operationId
          /\ tools.tools[i].name # tools.tools[j].name
          /\ \E p \in DOMAIN api.paths : \E m \in DOMAIN api.paths[p].ops :
                api.paths[p].ops[m].operationId = <<>>
          /\ \E p \in DOMAIN api.paths : \E m \in DOMAIN api.paths[p].ops :
                api.paths[p].ops[m].operationId = tools.tools[i].operationId

ExpectedName(T, i) ==
    IF EarlierOfSameBase(T, i) = {} THEN T[i].operationId
    ELSE Append(T[i].operationId, Suffix(Cardinality(EarlierOfSameBase(T, i))))

\* C2 as claimed: in every document, the first operation of a base name is
\* named the base name and the i-th later one base_i.
C2_AlwaysBaseThenSuffix ==
    Extracted =>
        \A i \in DOMAIN tools.tools : tools.tools[i].name = ExpectedName(tools.tools, i)

\* C2 as amended: the first operation of a base name is named the base name
\* and the i-th later one base_i, provided no earlier operation of a
\* different base name was given one of the names base, base_1, base_2, ...
C2_BaseThenSuffixWhenFree ==
    Extracted =>
        \A i \in DOMAIN tools.tools :
            (\A j \in 1..(i - 1) :
                 tools.tools[j].operationId # tools.tools[i].operationId
                     => ~IsNameFor(tools.tools[j].name, tools.tools[i].operationId))
                => tools.tools[i].name = ExpectedName(tools.tools, i)

\* three operations of one base name got base, base_1, base_2
C2_Witness ==
    /\ Extracted
    /\ \E i, j, k \in DOMAIN tools.tools :
          /\ i < j /\ j < k
          /\ tools.tools[i].operationId = tools.tools[j].operationId
          /\ tools.tools[j].operationId = tools.tools[k].operationId
          /\ tools.tools[i].name = tools.tools[i].operationId
          /\ tools.tools[j].name = Append(tools.tools[i].operationId, "_1")
          /\ tools.tools[k].name = Append(tools.tools[i].operationId, "_2")

\* C3: translating a schema node always ends with a result, also when a
\* property or item chain leads back to the node being translated.
C3_TranslationTerminates ==
    HasRun(jsonSchema) => ~Thrown(jsonSchema)

Assembled == HasRun(contract) /\ ~Thrown(contract)

\* C10: every name in the required list of the assembled input contract is
\* a key of the contract's properties map.
C10_RequiredWithinProperties ==
    Assembled =>
        \A i \in DOMAIN RequiredOf(contract.inputSchema) :
            RequiredOf(contract.inputSchema)[i] \in DOMAIN contract.inputSchema.properties

\* a required parameter without a schema, next to a required one with a schema
C10_Witness ==
    /\ Assembled
    /\ Len(RequiredOf(contract.inputSchema)) > 0
    /\ \E i \in DOMAIN operation.parameters :
          operation.parameters[i].required /\ operation.parameters[i].schema = NoNode

\* C11 as claimed: the assembled input contract is an object schema that
\* always carries a required list, empty when nothing is mandatory.
C11_RequiredListAlwaysPresent ==
    Assembled =>
        /\ contract.inputSchema.type = "object"
        /\ "required" \in DOMAIN contract.inputSchema

BodyDeclared == Assembled /\ operation.requestBody.declared

\* the schema of the application/json representation of a body, or NoNode
JsonSchemaNodeOf(body) ==
    IF \E i \in DOMAIN body.content :
           body.content[i].ctype = "application/json" /\ body.content[i].schema # NoNode
    THEN body.content[CHOOSE i \in DOMAIN body.content :
                          body.content[i].ctype = "application/json"].schema
    ELSE NoNode

\* C16 as claimed: for every operation that declares a request body, the
\* contract has a property requestBody, the translated schema of the
\* application/json representation when there is one with a schema and a
\* string-typed placeholder otherwise, and requestBody is in the required
\* list if and only if the body is marked required.
C16_RequestBodyProperty ==
    BodyDeclared =>
        LET body == operation.requestBody
            props == contract.inputSchema.properties
            node == JsonSchemaNodeOf(body)
        IN /\ "requestBody" \in DOMAIN props
           /\ IF node # NoNode
              THEN LET t == mapOpenApiSchemaToJsonSchema(heap, node, 1)
                   IN /\ props["requestBody"].type = t.type
                      /\ props["requestBody"].properties = t.properties
                      /\ props["requestBody"].items = t.items
              ELSE props["requestBody"].type = TString("string")
           /\ ("requestBody" \in Range(RequiredOf(contract.inputSchema))) <=> body.required

Translated == HasRun(jsonSchema) /\ ~Thrown(jsonSchema) /\ heap[schema].ref = ""

\* the declared type names of a node, integer read as number
DeclaredNames(s) == IF s.type = TString("integer") THEN <<"number">> ELSE s.type.names

CountOf(names, x) == Cardinality({i \in DOMAIN names : names[i] = x})

\* C17: the translated type of a nullable node is the union of its declared
\* (coerced) types and null, with null in it once; it is exactly null when
\* the node declares no type; the type of a node that is not nullable is
\* its declared (coerced) type, with no null added.
C17_NullableAcceptsNull ==
    Translated =>
        LET s == heap[schema]
            result == jsonSchema.type
        IN IF s.nullable
           THEN /\ CountOf(result.names, "null") = 1
                /\ Range(result.names) = Range(DeclaredNames(s)) \cup {"null"}
                /\ s.type = TNone => result = TString("null")
                /\ s.type # TNone =>
                      /\ result.kind = "array"
                      /\ \A i \in DOMAIN DeclaredNames(s) :
                            result.names[i] = DeclaredNames(s)[i]
           ELSE /\ result.kind = s.type.kind
                /\ result.names = DeclaredNames(s)

\* a nullable node whose declared types already hold null was translated
C17_Witness ==
    /\ Translated
    /\ heap[schema].nullable
    /\ heap[schema].type = TArray(<<"string", "null">>)
    /\ jsonSchema.type = TArray(<<"string", "null">>)

\* the operations of the document an identifier can be derived for, in
\* document order
Derivable(entries) ==
    SelectSeq(entries, LAMBDA e : \/ e.operation.operationId # <<>>
                                  \/ generateOperationId(e.method, e.path) # <<>>)

IsPermissiveFor(js, ref) ==
    /\ "raw" \notin DOMAIN js
    /\ js.type = TString("object")
    /\ js.properties = <<>>
    /\ js.description = <<"Unresolved: ", ref>>

\* every unresolved reference among node n and its properties and items
\* has, at its place in the translation js of n, the permissive object
\* schema that names it
RECURSIVE ReferencesPermissive(_, _, _, _)
ReferencesPermissive(h, n, js, depth) ==
    IF depth > StackLimit THEN TRUE
    ELSE IF h[n].ref # "" THEN IsPermissiveFor(js, h[n].ref)
    ELSE /\ "raw" \notin DOMAIN js
         /\ \A k \in DOMAIN h[n].properties :
               /\ k \in DOMAIN js.properties
               /\ ReferencesPermissive(h, h[n].properties[k], js.properties[k], depth + 1)
         /\ h[n].items # NoNode =>
               ReferencesPermissive(h, h[n].items, js.items, depth + 1)

\* C23 as claimed: for every document, extraction returns a registry: one
\* Tool Definition for each (path, method) operation an identifier can be
\* derived for, in document order, none for the others, and every
\* unresolved reference in a parameter's schema is translated to a
\* permissive object schema that names it.
C23_BuildNeverAborts ==
    HasRun(tools) =>
        /\ ~Thrown(tools)
        /\ LET expected == Derivable(PathEntries(api.paths, 1))
           IN /\ Len(tools.tools) = Len(expected)
              /\ \A i \in DOMAIN tools.tools :
                    /\ tools.tools[i].path = expected[i].path
                    /\ tools.tools[i].method = expected[i].method
                    /\ \A j \in DOMAIN expected[i].operation.parameters :
                          LET param == expected[i].operation.parameters[j] IN
                          /\ param.name \in DOMAIN tools.tools[i].inputSchema.properties
                          /\ ReferencesPermissive(heap, param.schema,
                                 tools.tools[i].inputSchema.properties[param.name], 1)

(***************************************************************************)
(* Properties of the programmatic API.                                     *)
(***************************************************************************)
AllTools == extractToolsFromApi(heap, api)

LoadingFails == ParserCalled(specPathOrUrl, options) /\ specPathOrUrl.parser = "rejects"

ResolvedBaseUrl ==
    LET url == determineBaseUrl(api, options.baseUrl)
    IN IF url = NullUrl THEN <<>> ELSE url

Kept(tool) ==
    /\ tool.operationId \notin Range(options.excludeOperationIds)
    /\ FilterFn(options.filterFn, tool)

\* C24: getToolsFromOpenApi returns, in extraction order, exactly the
\* extracted tools whose operationId is not excluded and that filterFn
\* (when given) accepts, each with the resolved base URL ('' when none);
\* without filter options it returns every extracted tool; a failure to
\* load or to extract is thrown with the 'Failed to extract tools from
\* OpenAPI' prefix and no list is returned.
C24_GetToolsFiltersAndRethrows ==
    HasRun(getToolsResult) =>
        IF LoadingFails \/ Thrown(AllTools)
        THEN /\ Thrown(getToolsResult)
             /\ "tools" \notin DOMAIN getToolsResult
             /\ getToolsResult.error.isError
             /\ getToolsResult.error.message[1] = FailedPrefix
             /\ Len(getToolsResult.error.message) > 1
        ELSE ~FilterThrows(options.filterFn) =>
             /\ ~Thrown(getToolsResult)
             /\ LET kept == SelectSeq(AllTools.tools, Kept)
                IN /\ Len(getToolsResult.tools) = Len(kept)
                   /\ \A i \in DOMAIN kept :
                         /\ getToolsResult.tools[i].baseUrl = ResolvedBaseUrl
                         /\ \A f \in DOMAIN kept[i] :
                               getToolsResult.tools[i][f] = kept[i][f]
             /\ (options.excludeOperationIds = <<>> /\ options.filterFn = NoFilterFn) =>
                   Len(getToolsResult.tools) = Len(AllTools.tools)

\* a call that excluded one tool by its operationId, dropped another by
\* filterFn and returned the rest with a base URL
C24_Witness ==
    /\ HasRun(getToolsResult) /\ ~Thrown(getToolsResult)
    /\ options.filterFn = "getOnly"
    /\ Len(options.excludeOperationIds) > 0
    /\ \E t \in Range(AllTools.tools) :
          t.operationId \in Range(options.excludeOperationIds) /\ t.name # t.operationId
    /\ \E t \in Range(AllTools.tools) :
          t.operationId \notin Range(options.excludeOperationIds) /\ t.method # "get"
    /\ Len(getToolsResult.tools) > 0
    /\ getToolsResult.tools[1].baseUrl # <<>>

(***************************************************************************)
(* Properties of the base URL resolution.                                  *)
(***************************************************************************)
BaseUrlResolved == HasRun(resolvedBaseUrl)

\* the URL the precedence rule selects: the override, else the first
\* declared server's, else none
SelectedUrl ==
    IF baseUrlOption # <<>> THEN baseUrlOption
    ELSE IF Len(api.servers) >= 1 THEN api.servers[1].url
    ELSE NullUrl

\* the request URL the generated server makes of a path under a base URL
DispatchedUrl(url, path) == RequestUrl(BaseUrlConstant(url), path)

\* C12 as claimed: determineBaseUrl returns the override when one is given,
\* else the URL of the single declared server, else the URL of the first of
\* several, else null, and then paths are dispatched unprefixed.
C12_BaseUrlPrecedence ==
    BaseUrlResolved =>
        /\ resolvedBaseUrl.url = SelectedUrl
        /\ resolvedBaseUrl.url = NullUrl =>
              DispatchedUrl(resolvedBaseUrl.url, <<"/users/", "42">>) = <<"/users/", "42">>

EndsWithSlash(url) == Len(url) > 0 /\ url[Len(url)] = "/"

\* C12 as amended: the URL the precedence rule selects is returned with one
\* trailing '/' removed; a single declared server whose URL is empty counts
\* as none; with null, and with an empty result, paths are dispatched
\* unprefixed.
C12_BaseUrlPrecedenceSlashStripped ==
    BaseUrlResolved =>
        LET selected == IF baseUrlOption = <<>> /\ Len(api.servers) = 1
                           /\ api.servers[1].url = <<>>
                        THEN NullUrl ELSE SelectedUrl
        IN /\ resolvedBaseUrl.url =
                  IF EndsWithSlash(selected)
                  THEN SubSeq(selected, 1, Len(selected) - 1) ELSE selected
           /\ resolvedBaseUrl.url \in {NullUrl, <<>>} =>
                 DispatchedUrl(resolvedBaseUrl.url, <<"/users/", "42">>) = <<"/users/", "42">>

\* an override was given for a document that declares two servers
C12_Witness ==
    /\ BaseUrlResolved
    /\ baseUrlOption = <<"https://override.example.com">>
    /\ Len(api.servers) = 2
    /\ resolvedBaseUrl.url = <<"https://override.example.com">>

(***************************************************************************)
(* Properties of the call handler.                                         *)
(***************************************************************************)
Started(c) == calls[c].pc # "idle"
Returned(c) == calls[c].pc = "returned"
ResultText(c) == calls[c].result.content[1].text
StartsWith(text, token) == Len(text) > 0 /\ text[1] = token

IsValidationFailure(c) == Returned(c) /\ StartsWith(ResultText(c), "Invalid arguments for tool '")
IsDispatchError(c) ==
    Returned(c) /\ StartsWith(ResultText(c),
        "Validation passed but failed to resolve path parameters in URL: ")
IsUnknownTool(c) == Returned(c) /\ StartsWith(ResultText(c), "Error: Unknown tool requested: ")

HttpRequested(c) == \E r \in requests : r.call = c
ReachedHttpStep(c) == LogExecuting \in Range(calls[c].log)
RanValidation(c) == {LogValidated, LogInvalid} \cap Range(calls[c].log) # {}

CalledListedTool(c) == Started(c) /\ Listed(toolsList, calls[c].toolName)

\* the Tool Definition and the listed tool of the name a call asks for
DefinitionOf(c) ==
    tools.tools[First(tools.tools, LAMBDA t : t.name = calls[c].toolName)]
ListedToolOf(c) ==
    toolsList[First(toolsList, LAMBDA t : t.name = calls[c].toolName)]

\* the call's arguments do not satisfy the input contract of its tool
ArgumentsInvalid(c) ==
    ZodIssues(ListedToolOf(c).inputSchema, ArgsToParse(calls[c].toolArgs)) # {}

C5_NoBraceInRequestTarget ==
    \A r \in requests : ~Includes(r.config.url, BraceTokens)

\* the path a call's validated arguments give, after substitution
SubstitutedPath(c) ==
    LET branch == callToolCode[First(callToolCode, LAMBDA b : b.name = calls[c].toolName)]
    IN SubstitutePathParams(branch.rawPath, branch.pathParams, 1,
           ZodParse(ListedToolOf(c).inputSchema, ArgsToParse(calls[c].toolArgs)).data)

\* the part of a request URL after the base URL
PathPart(url) == SubSeq(url, Len(API_BASE_URL) + 1, Len(url))

\* C5 as amended: no HTTP request is executed whose path, the part of the
\* target after the base URL, still contains '{'; when a '{' remains in the
\* path after substitution the call ends with the dispatch error, not a
\* validation error, before the HTTP execution step.
C5_NoBraceInRequestPath ==
    /\ \A r \in requests : ~Includes(PathPart(r.config.url), BraceTokens)
    /\ \A c \in CallIds :
          /\ CalledListedTool(c) /\ ~ArgumentsInvalid(c)
          /\ Includes(SubstitutedPath(c), BraceTokens)
          => IsDispatchError(c) /\ ~IsValidationFailure(c)
             /\ ~HttpRequested(c) /\ ~ReachedHttpStep(c)

\* a placeholder stayed in the path and the call ended in the dispatch error
C5_Witness ==
    \E c \in CallIds :
        /\ CalledListedTool(c) /\ ~ArgumentsInvalid(c)
        /\ Includes(SubstitutedPath(c), BraceTokens)
        /\ IsDispatchError(c)

\* the call leaves out a path parameter that its operation declares
\* required and whose placeholder is in the path template
OmitsRequiredPathParam(c) ==
    /\ CalledListedTool(c)
    /\ \E i \in DOMAIN DefinitionOf(c).parameters :
          LET p == DefinitionOf(c).parameters[i] IN
          /\ p.in = "path" /\ p.required
          /\ Includes(DefinitionOf(c).path, {Placeholder(p.name)})
          /\ ArgOf(ArgsToParse(calls[c].toolArgs), p.name) = Undefined

\* C6 as claimed: a call that omits a required path parameter ends with the
\* dispatch-consistency error, and no HTTP request is made.
C6_OmittedPathParamIsDispatchError ==
    \A c \in CallIds :
        OmitsRequiredPathParam(c) => IsDispatchError(c) /\ ~HttpRequested(c)

\* C6 as amended: a call that omits a required path parameter makes no HTTP
\* request; it ends with the validation failure when validation rejects the
\* arguments (the parameter is in the contract's required list), and with
\* the dispatch-consistency error when validation passes (the parameter was
\* declared without a schema, so the contract does not know it).
C6_OmittedPathParamNeverDispatched ==
    \A c \in CallIds :
        OmitsRequiredPathParam(c)
            => /\ ~HttpRequested(c) /\ ~ReachedHttpStep(c)
               /\ IF ArgumentsInvalid(c) THEN IsValidationFailure(c)
                  ELSE IsDispatchError(c)

\* a required path parameter was left out, validation passed, and the call
\* ended in the dispatch error
C6_Witness ==
    \E c \in CallIds :
        OmitsRequiredPathParam(c) /\ ~ArgumentsInvalid(c) /\ IsDispatchError(c)

\* C7: a call whose name is not in the tool list ends with the unknown-tool
\* outcome without validation or HTTP request; a call whose name is in the
\* list never ends with the unknown-tool outcome.
C7_UnknownToolOutcome ==
    \A c \in CallIds :
        Started(c) =>
            IF Listed(toolsList, calls[c].toolName)
            THEN ~IsUnknownTool(c) /\ LogUnknownTool \notin Range(calls[c].log)
            ELSE /\ IsUnknownTool(c)
                 /\ ~RanValidation(c) /\ ~ReachedHttpStep(c) /\ ~HttpRequested(c)

\* a call for a name that is not in the list has returned
C7_Witness ==
    \E c \in CallIds :
        Started(c) /\ ~Listed(toolsList, calls[c].toolName) /\ IsUnknownTool(c)

\* C8: every tool call returns one result holding one text content item;
\* no failure leaves the call handler as a thrown error.
C8_AlwaysOneTextResult ==
    \A c \in CallIds :
        /\ calls[c].pc # "threw"
        /\ Returned(c) => /\ Len(calls[c].result.content) = 1
                          /\ calls[c].result.content[1].type = "text"

\* the arguments of a call as validation hands them on
ValidatedArgs(c) ==
    ZodParse(ListedToolOf(c).inputSchema, ArgsToParse(calls[c].toolArgs)).data

Mentions(text, token) == \E i \in DOMAIN text : text[i] = token

\* C15 as claimed: a call to a registered tool whose arguments lack a name
\* of the contract's required list ends with a validation failure whose
\* message names that property.
C15_MissingRequiredFailsValidation ==
    \A c \in CallIds :
        CalledListedTool(c) =>
            \A i \in DOMAIN RequiredOf(ListedToolOf(c).inputSchema) :
                LET k == RequiredOf(ListedToolOf(c).inputSchema)[i] IN
                ArgOf(ArgsToParse(calls[c].toolArgs), k) = Undefined
                    => IsValidationFailure(c) /\ Mentions(ResultText(c), k)

\* the position of a parameter's placeholder in the path template, or 0
PlaceholderAt(path, name) ==
    IF \E i \in DOMAIN path : path[i] = Placeholder(name)
    THEN CHOOSE i \in DOMAIN path : path[i] = Placeholder(name)
    ELSE 0

ParamsIn(c, loc) ==
    {DefinitionOf(c).parameters[i].name :
        i \in {j \in DOMAIN DefinitionOf(c).parameters :
                   DefinitionOf(c).parameters[j].in = loc}}

\* C18: in every request handed to the HTTP layer, a declared parameter
\* whose validated value is present is where its location says (path: the
\* percent-encoded text in place of its placeholder; query: an entry of the
\* query map; header: a header under the lower-cased name), one whose value
\* is absent or null is in none of them, and Accept: application/json is
\* among the headers.
C18_ParametersPlacedByLocation ==
    \A r \in requests :
        LET c == r.call
            args == ValidatedArgs(c)
            path == PathPart(r.config.url)
        IN /\ \A n \in ParamsIn(c, "path") :
                 LET k == PlaceholderAt(DefinitionOf(c).path, n) IN
                 k # 0 => /\ Present(ArgOf(args, n))
                          /\ path[k] = encodeURIComponent(ArgOf(args, n).text)
           /\ Len(path) = Len(DefinitionOf(c).path)
           /\ \A k \in DOMAIN path :
                 path[k] # DefinitionOf(c).path[k]
                     => \E n \in ParamsIn(c, "path") :
                            DefinitionOf(c).path[k] = Placeholder(n)
           /\ DOMAIN r.config.params =
                 {n \in ParamsIn(c, "query") : Present(ArgOf(args, n))}
           /\ \A n \in DOMAIN r.config.params : r.config.params[n] = ArgOf(args, n)
           /\ DOMAIN r.config.headers \ {"Accept", "content-type"} =
                 {toLowerCase(n) : n \in {h \in ParamsIn(c, "header") :
                                              Present(ArgOf(args, h))}}
           /\ \A n \in ParamsIn(c, "header") :
                 Present(ArgOf(args, n))
                     => r.config.headers[toLowerCase(n)] = ArgOf(args, n).text
           /\ "Accept" \in DOMAIN r.config.headers
           /\ r.config.headers["Accept"] = "application/json"

\* a request with a path value that needed encoding, a null query value
\* left out and a header value sent
C18_Witness ==
    \E r \in requests :
        /\ calls[r.call].toolArgs.isObject
        /\ calls[r.call].toolArgs.fields["id"] = StringValue("a/b")
        /\ calls[r.call].toolArgs.fields["q"] = NullValue
        /\ calls[r.call].toolArgs.fields["Authorization"] = StringValue("a/b")
        /\ PathPart(r.config.url) = <<"/users/", "a%2Fb">>
        /\ DOMAIN r.config.params = {}
        /\ "authorization" \in DOMAIN r.config.headers

\* C19: a request has a body payload and a Content-Type header exactly when
\* its tool declares a request body and the validated arguments hold a
\* requestBody value; the Content-Type is then application/json if the
\* body declares that representation or none, else the first declared
\* content type.
C19_BodyAndContentType ==
    \A r \in requests :
        LET c == r.call
            body == DefinitionOf(c).requestBody
            value == ArgOf(ValidatedArgs(c), "requestBody")
            sent == body.declared /\ value # Undefined
        IN /\ ("content-type" \in DOMAIN r.config.headers) <=> sent
           /\ (r.config.data # Undefined) <=> sent
           /\ sent =>
                 /\ r.config.data = value
                 /\ r.config.headers["content-type"] =
                        IF \/ Len(body.content) = 0
                           \/ \E i \in DOMAIN body.content :
                                  body.content[i].ctype = "application/json"
                        THEN "application/json"
                        ELSE body.content[1].ctype

\* a text/plain body was sent by one tool and a JSON body by a tool that
\* lists text/plain first; a tool without a body sent none
C19_Witness ==
    \E r \in requests :
        LET body == DefinitionOf(r.call).requestBody IN
        /\ body.declared
        /\ body.content[1].ctype = "text/plain"
        /\ Len(body.content) = 2
        /\ r.config.data = ObjectValue
        /\ r.config.headers["content-type"] = "application/json"

\* C20: the tool list the server holds is the one built from the Tool
\* Definitions, whatever list-tools and call-tool requests were handled,
\* and every list-tools response is that list: same names, descriptions
\* and input contracts, in the same order.
C20_RegistryReadOnly ==
    /\ Len(toolsList) = Len(tools.tools)
    /\ \A i \in DOMAIN toolsList :
          /\ toolsList[i].name = tools.tools[i].name
          /\ toolsList[i].description = tools.tools[i].description
          /\ toolsList[i].inputSchema = tools.tools[i].inputSchema
    /\ HasRun(listResponse) => listResponse.tools = toolsList

\* the list was returned after a call ended in a dispatch error
C20_Witness ==
    /\ HasRun(listResponse)
    /\ Len(listResponse.tools) > 0
    /\ \E c \in CallIds : IsDispatchError(c)

\* what the handler makes of a call's name and arguments, and of the
\* answer to its own HTTP request once there is one, with no other call
\* around
Alone(c) ==
    LET r == CallToolHandler(toolsList, callToolCode, API_BASE_URL,
                             calls[c].toolName, calls[c].toolArgs)
    IN IF r.kind = "awaiting" /\ HasRun(calls[c].outcome)
       THEN AfterAxios(r.log, calls[c].outcome)
       ELSE r

Suspended(c) == calls[c].pc = "awaiting"

\* C21: with several calls in flight, each call is where it would be alone
\* and has the outcome it would have alone, given its name, arguments and
\* the answer to its own request; while a call is suspended on its request,
\* any other call can be received, and any other suspended call can
\* complete.
C21_ConcurrentCallsIndependent ==
    /\ \A c \in DOMAIN calls :
          Started(c) =>
              /\ calls[c].pc = Alone(c).kind
              /\ calls[c].result = Alone(c).result
              /\ calls[c].log = Alone(c).log
              /\ Suspended(c) => ~HasRun(calls[c].outcome)
    /\ \A c, d \in DOMAIN calls :
          c # d /\ Suspended(c) =>
              /\ ~Started(d) => ENABLED ConcurrentCall(d)
              /\ Suspended(d) => ENABLED AxiosSettles(d)

\* a call that went through its HTTP request has returned while a call
\* received for the same tool is still suspended on its own
C21_Witness ==
    \E c, d \in DOMAIN calls :
        /\ c # d
        /\ Suspended(c)
        /\ Returned(d) /\ HasRun(calls[d].outcome)
        /\ calls[c].toolName = calls[d].toolName

\* C22 as claimed: every call that reaches the HTTP execution step
\* eventually leaves it, also when the downstream never answers: no call
\* stays suspended on its request forever.
C22_SuspendedCallEventuallyReturns ==
    \A c \in ConcurrentCallIds : Suspended(c) ~> ~Suspended(c)

ListedNames == {toolsList[i].name : i \in DOMAIN toolsList}
BranchNames == {callToolCode[b].name : b \in DOMAIN callToolCode}

IsHandlerMissing(c) ==
    \/ LogHandlerMissing \in Range(calls[c].log)
    \/ StartsWith(ResultText(c),
          "Error: Internal server error - handler not implemented for tool: ")

\* the request of call c is the one of the operation its tool was made from
OwnRequest(c) ==
    /\ calls[c].config.method = ToUpperCase(DefinitionOf(c).method)
    /\ calls[c].config.url = RequestUrl(API_BASE_URL, DefinitionOf(c).path)

\* C25: the listed names are the names that have a branch, and a call of a
\* listed tool is handled by that tool's branch: it validates first, makes
\* its request only after validation passed, the request is the one of its
\* own operation, and the 'handler not implemented' fallback is not what
\* the call ends with.
C25_ListedToolRunsItsBranch ==
    /\ ListedNames = BranchNames
    /\ \A c \in CallIds :
          CalledListedTool(c) =>
              /\ ~IsHandlerMissing(c)
              /\ RanValidation(c)
              /\ calls[c].log[1] \in {LogValidated, LogInvalid}
              /\ ReachedHttpStep(c) =>
                    /\ calls[c].log[1] = LogValidated
                    /\ OwnRequest(c)

\* a call of the tool named by a suffix, made from the second operation
\* with the same operationId, has completed its own request
C25_Witness ==
    \E c \in CallIds :
        /\ CalledListedTool(c) /\ Returned(c)
        /\ calls[c].toolName = <<"getA", "_1">>
        /\ calls[c].config.method = "POST"
        /\ Cardinality(ListedNames) > 2

(***************************************************************************)
(* Properties of the catch block.                                          *)
(***************************************************************************)
Handled == HasRun(handled)
HandledText == handled.result.content[1].text

IsStatusForm(text) == StartsWith(text, "API Error: Status ")
IsNetworkForm(text) ==
    StartsWith(text, "API Network Error: No response received from the server. Check network connectivity or server availability.")
IsSetupForm(text) == StartsWith(text, "API Request Setup Error: ")

FormsOf(text) ==
    {f \in {"status", "network", "setup"} :
        \/ f = "status" /\ IsStatusForm(text)
        \/ f = "network" /\ IsNetworkForm(text)
        \/ f = "setup" /\ IsSetupForm(text)}

HasToken(text, token) == \E i \in DOMAIN text : text[i] = token

\* C13 as claimed: a failure of the HTTP layer gets exactly one of the
\* three forms, the one of its class (status with status text, network
\* with the code when there is one, setup with the message); any other
\* failure gets none of the three and is rendered with its raw message.
C13_FailureClassification ==
    Handled =>
        /\ handled.kind = "returned"
        /\ IF caughtError.kind = "AxiosError"
           THEN /\ Cardinality(FormsOf(HandledText)) = 1
                /\ caughtError.response # NoResponse =>
                      /\ IsStatusForm(HandledText)
                      /\ HasToken(HandledText, ToString(caughtError.response.status))
                      /\ caughtError.response.statusText # "" =>
                            HasToken(HandledText, caughtError.response.statusText)
                /\ caughtError.response = NoResponse /\ caughtError.request =>
                      /\ IsNetworkForm(HandledText)
                      /\ caughtError.code # "" => HasToken(HandledText, caughtError.code)
                /\ caughtError.response = NoResponse /\ ~caughtError.request =>
                      /\ IsSetupForm(HandledText)
                      /\ SubSeq(HandledText, 2, Len(HandledText)) = caughtError.message
           ELSE /\ FormsOf(HandledText) = {}
                /\ HandledText = caughtError.message

ErrorStatusWithBody ==
    /\ Handled
    /\ caughtError.kind = "AxiosError"
    /\ caughtError.response # NoResponse
    /\ caughtError.response.data.kind \in {"string", "object"}

\* the number of characters of the rendering a text ends with: the token
\* chars[0,k) stands for k characters
RenderedLengths(text) ==
    {k \in 0..(MAX_LEN + 1) : HasToken(text, "chars[0," \o ToString(k) \o ")")}

EndsWithEllipsis(text) == Len(text) > 0 /\ text[Len(text)] = "..."

\* C14: for an error status with a string or object body, the outcome holds
\* the status code and a rendering of the body of at most 200 characters
\* (the whole body when it is no longer), followed by '...' exactly when the
\* body's full rendering is longer than 200 characters.
C14_BodyTruncatedAt200 ==
    ErrorStatusWithBody =>
        LET len == caughtError.response.data.len IN
        /\ handled.kind = "returned"
        /\ HasToken(HandledText, ToString(caughtError.response.status))
        /\ RenderedLengths(HandledText) = {IF len <= 200 THEN len ELSE 200}
        /\ EndsWithEllipsis(HandledText) <=> len > 200

\* a 201-character object body was cut, a 200-character one was not
C14_Witness ==
    /\ ErrorStatusWithBody
    /\ \/ /\ caughtError.response.data = [kind |-> "object", len |-> 201]
          /\ EndsWithEllipsis(HandledText)
       \/ /\ caughtError.response.data = [kind |-> "string", len |-> 200]
          /\ ~EndsWithEllipsis(HandledText)

(***************************************************************************)
(* The generated web server: the /sse handler and its registry of          *)
(* transports (web-server.ts lines 46-83).  Every GET /sse creates a       *)
(* transport with a fresh session id, so a session id stands for one       *)
(* client connection.  The handler runs without suspension up to           *)
(* `await server.connect(transport)`; the 'close' listener of the request  *)
(* runs when the event loop delivers the event.                            *)
(***************************************************************************)
MaxSessions == 3   \* client connections a behaviour holds

SessionIds == 1..MaxSessions

\* the transport that `new SSEServerTransport` creates for a session
TransportOf(sessionId) == [sessionId |-> sessionId]

\* line 68: transports[sessionId] = transport
Register(registry, sessionId) ==
    [k \in DOMAIN registry \cup {sessionId} |->
        IF k = sessionId THEN TransportOf(sessionId) ELSE registry[k]]

\* a listener that logs the close and leaves the registry as it is
Unregister_LogOnly(registry, sessionId) == registry

\* line 73: delete transports[sessionId]
Unregister(registry, sessionId) ==
    [k \in DOMAIN registry \ {sessionId} |-> registry[k]]

InitWeb ==
    /\ heap = <<>> /\ schema = NoNode /\ jsonSchema = NotRun
    /\ operation = NoOperation /\ contract = NotRun
    /\ api = NoDocument /\ tools = NotRun
    /\ NoServer /\ NoUnit
    /\ transports = <<>>
    /\ sse = [s \in SessionIds |-> "idle"]
    /\ connection = [s \in SessionIds |-> "none"]
    /\ closeEvents = {}
    /\ posts = <<>>

\* lines 50-78: a client connects; the handler registers the transport and
\* the close listener, then awaits server.connect
SseConnect(s) ==
    /\ connection[s] = "none"
    /\ connection' = [connection EXCEPT ![s] = "open"]
    /\ transports' = Register(transports, s)
    /\ sse' = [sse EXCEPT ![s] = "connecting"]
    /\ UNCHANGED <<buildVars, serveVars, unitVars, closeEvents, posts>>

\* line 78: server.connect resolves
ServerConnected(s) ==
    /\ sse[s] = "connecting"
    /\ sse' = [sse EXCEPT ![s] = "connected"]
    /\ UNCHANGED <<buildVars, serveVars, unitVars, transports, connection, closeEvents, posts>>

\* lines 79-82: server.connect rejects; the error is logged
ServerConnectFailed(s) ==
    /\ sse[s] = "connecting"
    /\ sse' = [sse EXCEPT ![s] = "failed"]
    /\ UNCHANGED <<buildVars, serveVars, unitVars, transports, connection, closeEvents, posts>>

\* the client disconnects or the connection is aborted: the request emits 'close'
ConnectionCloses(s) ==
    /\ connection[s] = "open"
    /\ connection' = [connection EXCEPT ![s] = "closed"]
    /\ closeEvents' = closeEvents \cup {s}
    /\ UNCHANGED <<buildVars, serveVars, unitVars, transports, sse, posts>>

\* lines 71-74: the close listener runs
CloseListener(s) ==
    /\ s \in closeEvents
    /\ transports' = Unregister(transports, s)
    /\ closeEvents' = closeEvents \ {s}
    /\ UNCHANGED <<buildVars, serveVars, unitVars, sse, connection, posts>>

NextWeb ==
    \/ \E s \in SessionIds : SseConnect(s)
    \/ \E s \in SessionIds : ServerConnected(s)
    \/ \E s \in SessionIds : ServerConnectFailed(s)
    \/ \E s \in SessionIds : ConnectionCloses(s)
    \/ \E s \in SessionIds : CloseListener(s)

\* the event loop delivers every emitted event
SpecWeb ==
    InitWeb /\ [][NextWeb]_vars /\ \A s \in SessionIds : WF_vars(CloseListener(s))

(***************************************************************************)
(* Properties of the session registry.                                     *)
(***************************************************************************)
\* C9: a session id is in the registry from the moment its SSE connection
\* is established; after the connection closes, also while or after
\* server.connect fails, the registry eventually holds no entry for it and
\* never holds one again.
C9_SessionRegisteredThenRemoved ==
    /\ [](\A s \in SessionIds :
            connection[s] = "open"
                => s \in DOMAIN transports /\ transports[s] = TransportOf(s))
    /\ \A s \in SessionIds :
          (connection[s] = "closed") ~> [](s \notin DOMAIN transports)

\* a connection closed after server.connect failed, and its entry is gone
\* while another session is still registered
C9_Witness ==
    \E s, t \in SessionIds :
        /\ connection[s] = "closed" /\ sse[s] = "failed"
        /\ s \notin DOMAIN transports
        /\ connection[t] = "open" /\ t \in DOMAIN transports

(***************************************************************************)
(* POST /api/messages (web-server.ts lines 86-109).  The handler runs      *)
(* without suspension up to `await transport.handlePostMessage(req, res)`. *)
(* Session ids are strings; the numbers of SessionIds stand for the ids    *)
(* the transports were created with, MissingSessionId for a request        *)
(* without the query parameter, and InheritedKey for a name that every     *)
(* plain object inherits from Object.prototype, such as 'constructor'.     *)
(* The registry is a plain object, so reading it by such a name yields the *)
(* inherited value.                                                        *)
(***************************************************************************)
MaxPosts == 1      \* POST requests a behaviour holds

PostIds == 1..MaxPosts

MissingSessionId == 0
InheritedKey == MaxSessions + 1

PostedSessionIds == {MissingSessionId} \cup SessionIds \cup {InheritedKey}

NoTransport == [undefined |-> TRUE]
InheritedValue == [inherited |-> TRUE]
NoSession == MissingSessionId     \* of a message handed to no transport

\* line 93: transports[sessionId]
Lookup(registry, sessionId) ==
    IF sessionId \in DOMAIN registry THEN registry[sessionId]
    ELSE IF sessionId = InheritedKey THEN InheritedValue
    ELSE NoTransport

IsTransport(t) == "sessionId" \in DOMAIN t

IdlePost ==
    [pc |-> "idle", sessionId |-> MissingSessionId, hadEntry |-> FALSE,
     status |-> 0, deliveredTo |-> NoSession]

Responded(sessionId, hadEntry, status) ==
    [pc |-> "done", sessionId |-> sessionId, hadEntry |-> hadEntry,
     status |-> status, deliveredTo |-> NoSession]

\* lines 86-100: from the request to the first response or suspension;
\* hadEntry records whether the registry held an entry of that id
PostHandler(registry, sessionId) ==
    LET hadEntry == sessionId \in DOMAIN registry
        transport == Lookup(registry, sessionId)
    IN IF sessionId = MissingSessionId THEN Responded(sessionId, hadEntry, 400)
       ELSE IF transport = NoTransport THEN Responded(sessionId, hadEntry, 404)
       ELSE IF ~IsTransport(transport)
            \* transport.handlePostMessage is not a function: TypeError, caught
            THEN Responded(sessionId, hadEntry, 500)
       ELSE [pc |-> "awaiting", sessionId |-> sessionId, hadEntry |-> hadEntry,
             status |-> 0, deliveredTo |-> transport.sessionId]

\* what handlePostMessage of the transport does before it settles: it
\* accepts the message, or answers with an error and resolves or rejects,
\* or rejects without having answered
HandleOutcomes ==
    {[rejected |-> r, headersSent |-> h, status |-> st] :
        r \in BOOLEAN, h \in BOOLEAN, st \in {202, 400}}

\* lines 99-108: the catch answers 500 only when nothing was sent
AfterHandle(post, outcome) ==
    [post EXCEPT !.pc = "done",
                 !.status = IF outcome.headersSent THEN outcome.status
                            ELSE IF outcome.rejected THEN 500
                            ELSE 0]

InitMessages ==
    /\ heap = <<>> /\ schema = NoNode /\ jsonSchema = NotRun
    /\ operation = NoOperation /\ contract = NotRun
    /\ api = NoDocument /\ tools = NotRun
    /\ NoServer /\ NoUnit
    /\ transports = <<>>
    /\ sse = [s \in SessionIds |-> "idle"]
    /\ connection = [s \in SessionIds |-> "none"]
    /\ closeEvents = {}
    /\ posts = [p \in PostIds |-> IdlePost]

PostMessage(p) ==
    /\ posts[p].pc = "idle"
    /\ \E sessionId \in PostedSessionIds :
          posts' = [posts EXCEPT ![p] = PostHandler(transports, sessionId)]
    /\ UNCHANGED <<buildVars, serveVars, unitVars, transports, sse, connection, closeEvents>>

HandlePostMessageSettles(p) ==
    /\ posts[p].pc = "awaiting"
    /\ \E outcome \in HandleOutcomes :
          posts' = [posts EXCEPT ![p] = AfterHandle(posts[p], outcome)]
    /\ UNCHANGED <<buildVars, serveVars, unitVars, transports, sse, connection, closeEvents>>

NextMessages ==
    \/ \E s \in SessionIds : SseConnect(s)
    \/ \E s \in SessionIds : ServerConnected(s)
    \/ \E s \in SessionIds : ServerConnectFailed(s)
    \/ \E s \in SessionIds : ConnectionCloses(s)
    \/ \E s \in SessionIds : CloseListener(s)
    \/ \E p \in PostIds : PostMessage(p)
    \/ \E p \in PostIds : HandlePostMessageSettles(p)

SpecMessages == InitMessages /\ [][NextMessages]_vars

(***************************************************************************)
(* Properties of POST /api/messages.                                       *)
(***************************************************************************)
\* C26 as claimed: a message is handed to a transport only when its
\* sessionId named an entry of the registry at that moment, and then to the
\* transport of that session and no other; a request without sessionId is
\* answered 400, and one whose sessionId names no entry is answered 404.
C26_PostReachesOnlyItsSession ==
    \A p \in PostIds :
        posts[p].pc # "idle" =>
            /\ posts[p].deliveredTo # NoSession =>
                  /\ posts[p].hadEntry
                  /\ posts[p].deliveredTo = posts[p].sessionId
            /\ posts[p].sessionId = MissingSessionId =>
                  posts[p].status = 400 /\ posts[p].deliveredTo = NoSession
            /\ (posts[p].sessionId # MissingSessionId /\ ~posts[p].hadEntry) =>
                  posts[p].status = 404 /\ posts[p].deliveredTo = NoSession

====
